---- MODULE Spec2Model ----
(***************************************************************************)
(* Pittsfield Township property-tax analyzer: the CSV loader               *)
(* (data_loader.py), the evidence aggregator, valuation engine and         *)
(* petition composer (analysis_engine.py) and the record-card extractor    *)
(* (rc_parser.py).                                                         *)
(*                                                                         *)
(* Text is a sequence of one-character strings.  A missing numeric cell is *)
(* NA (the empty tuple), a present one is <<n>>.  Money is in whole        *)
(* dollars; ratios (cost factors, adjustment factors) are in                *)
(* ten-thousandths (8500 is 0.85).                                         *)
(***************************************************************************)
EXTENDS Integers, Sequences, FiniteSets, TLC

VARIABLES
    \* loader and evidence aggregator
    data, load_pc, area_code, views, summary_csv,
    \* valuation engine and petition composer
    user_sev, subdivision, ecf_trend, ecf_props, sales_df, land_trends, coverage,
    sales_stats, banner, summary, appeal_pc,
    \* record-card extractor
    pdf, prop, parse_pc

aggVars == <<data, load_pc, area_code, views, summary_csv>>

appealVars ==
    <<user_sev, subdivision, ecf_trend, ecf_props, sales_df, land_trends, coverage,
      sales_stats, banner, summary, appeal_pc>>

parseVars == <<pdf, prop, parse_pc>>

vars == <<aggVars, appealVars, parseVars>>

(***************************************************************************)
(* Bounds of the model.                                                    *)
(***************************************************************************)
\* size of the sales input: rows over all years plus schema deviations
MaxSalesInput == 2

(***************************************************************************)
(* Program constants.                                                      *)
(***************************************************************************)
LOT_ONLY_THRESHOLD == 150000

YEARS == <<2024, 2025, 2026>>

YearSet == {YEARS[i] : i \in 1..Len(YEARS)}

(***************************************************************************)
(* Text helpers: Python str methods on sequences of characters.            *)
(***************************************************************************)
NA == <<>>

NaNStr == <<"NaN">>

Some(n) == <<n>>

IsNA(x) == x = NA

Whitespace == {" ", "\t", "\n"}

DigitChars == {"0", "1", "2", "3", "4", "5", "6", "7", "8", "9"}

DigitVal(c) ==
    CASE c = "0" -> 0 [] c = "1" -> 1 [] c = "2" -> 2 [] c = "3" -> 3
      [] c = "4" -> 4 [] c = "5" -> 5 [] c = "6" -> 6 [] c = "7" -> 7
      [] c = "8" -> 8 [] c = "9" -> 9

DigitChar(n) ==
    CASE n = 0 -> "0" [] n = 1 -> "1" [] n = 2 -> "2" [] n = 3 -> "3"
      [] n = 4 -> "4" [] n = 5 -> "5" [] n = 6 -> "6" [] n = 7 -> "7"
      [] n = 8 -> "8" [] n = 9 -> "9"

\* code points of the characters that occur in the modelled tables
CharOrd(c) ==
    CASE c = "\t" -> 9 [] c = "\n" -> 10
      [] c = " " -> 32 [] c = "$" -> 36 [] c = "'" -> 39 [] c = "," -> 44
      [] c = "-" -> 45 [] c = "." -> 46 [] c = "/" -> 47
      [] c \in DigitChars -> 48 + DigitVal(c)
      [] c = "A" -> 65 [] c = "C" -> 67 [] c = "D" -> 68 [] c = "F" -> 70
      [] c = "L" -> 76 [] c = "M" -> 77 [] c = "Q" -> 81 [] c = "R" -> 82
      [] c = "S" -> 83 [] c = "W" -> 87 [] c = "X" -> 88
      [] c = "a" -> 97 [] c = "c" -> 99 [] c = "m" -> 109 [] c = "n" -> 110
      [] c = "r" -> 114
      [] c = "s" -> 115
      [] OTHER -> 127

LowerLetters ==
    <<"a", "b", "c", "d", "e", "f", "g", "h", "i", "j", "k", "l", "m",
      "n", "o", "p", "q", "r", "s", "t", "u", "v", "w", "x", "y", "z">>

UpperLetters ==
    <<"A", "B", "C", "D", "E", "F", "G", "H", "I", "J", "K", "L", "M",
      "N", "O", "P", "Q", "R", "S", "T", "U", "V", "W", "X", "Y", "Z">>

Letters == {LowerLetters[i] : i \in 1..26} \cup {UpperLetters[i] : i \in 1..26}

\* str.upper() on one character
UpperChar(c) ==
    IF \E i \in 1..26 : LowerLetters[i] = c
    THEN UpperLetters[CHOOSE i \in 1..26 : LowerLetters[i] = c]
    ELSE c

RECURSIVE LStripSet(_, _)
\* str.lstrip(chars): drop leading characters that are in cs
LStripSet(s, cs) ==
    IF s # <<>> /\ Head(s) \in cs THEN LStripSet(Tail(s), cs) ELSE s

RECURSIVE RStripSet(_, _)
\* str.rstrip(chars)
RStripSet(s, cs) ==
    IF s # <<>> /\ s[Len(s)] \in cs
    THEN RStripSet(SubSeq(s, 1, Len(s) - 1), cs)
    ELSE s

\* str.strip()
Strip(s) == RStripSet(LStripSet(s, Whitespace), Whitespace)

\* Series.str.strip(): NaN stays NaN
StrStrip(s) == IF s = NaNStr THEN NaNStr ELSE Strip(s)

\* re.sub / str.replace of a character class by ""
RemoveChars(s, cs) == SelectSeq(s, LAMBDA c : c \notin cs)

Upper(s) == [i \in 1..Len(s) |-> UpperChar(s[i])]

\* needle occurs in s
Contains(s, needle) ==
    \E i \in 1..(Len(s) - Len(needle) + 1) :
        SubSeq(s, i, i + Len(needle) - 1) = needle

RECURSIVE DigitsToInt(_, _)
DigitsToInt(s, acc) ==
    IF s = <<>> THEN acc ELSE DigitsToInt(Tail(s), acc * 10 + DigitVal(Head(s)))

IsDigits(s) == s # <<>> /\ \A i \in 1..Len(s) : s[i] \in DigitChars

\* lexicographic order of two texts by code point
RECURSIVE StrLess(_, _)
StrLess(a, b) ==
    IF b = <<>> THEN FALSE
    ELSE IF a = <<>> THEN TRUE
    ELSE IF Head(a) = Head(b) THEN StrLess(Tail(a), Tail(b))
    ELSE CharOrd(Head(a)) < CharOrd(Head(b))

RECURSIVE SeqsUpTo(_, _)
\* all sequences over S of length at most n
SeqsUpTo(S, n) ==
    IF n = 0 THEN {<<>>}
    ELSE LET shorter == SeqsUpTo(S, n - 1)
         IN  shorter \cup {Append(q, x) : q \in {t \in shorter : Len(t) = n - 1}, x \in S}

Restrict(f, D) == [c \in D |-> f[c]]

(***************************************************************************)
(* pandas.read_csv(dtype=str) and pd.to_numeric(errors="coerce").          *)
(***************************************************************************)
\* an empty CSV field is read as NaN
ReadCsvField(s) == IF s = <<>> THEN NaNStr ELSE s

\* to_numeric over a text cell after "$" and "," are removed
ToNumericMoney(s) ==
    IF s = NaNStr THEN NA
    ELSE LET cleaned == Strip(RemoveChars(s, {"$", ","}))
         IN  IF IsDigits(cleaned) THEN Some(DigitsToInt(cleaned, 0)) ELSE NA

RECURSIVE SplitOn(_, _, _)
\* str.split(sep): cur is the part being read
SplitOn(s, sep, cur) ==
    IF s = <<>> THEN <<cur>>
    ELSE IF Head(s) = sep THEN <<cur>> \o SplitOn(Tail(s), sep, <<>>)
    ELSE SplitOn(Tail(s), sep, Append(cur, Head(s)))

SplitOnDot(s) == SplitOn(s, ".", <<>>)

\* one in the unit of ratios
RATIO_ONE == 10000

RECURSIVE PadRight(_, _, _)
PadRight(s, n, c) == IF Len(s) >= n THEN s ELSE PadRight(Append(s, c), n, c)

\* a decimal text without sign, in ten-thousandths; NA when it is no number.
\* The modelled files hold at most four decimals.
DecimalToRatio(s) ==
    LET parts == SplitOnDot(s)
    IN  IF Len(parts) = 1 /\ IsDigits(parts[1])
        THEN Some(DigitsToInt(parts[1], 0) * RATIO_ONE)
        ELSE IF Len(parts) = 2 /\ IsDigits(parts[1]) /\ IsDigits(parts[2])
                /\ Len(parts[2]) <= 4
        THEN Some(DigitsToInt(parts[1], 0) * RATIO_ONE
                  + DigitsToInt(PadRight(parts[2], 4, "0"), 0))
        ELSE NA

\* pd.to_numeric(errors="coerce") over a ratio cell
ToNumericRatio(s) ==
    IF s = NaNStr THEN NA
    ELSE LET t == Strip(s)
         IN  IF t # <<>> /\ Head(t) = "-"
             THEN (IF DecimalToRatio(Tail(t)) = NA THEN NA
                   ELSE Some(0 - DecimalToRatio(Tail(t))[1]))
             ELSE DecimalToRatio(t)

\* the area-code normalisation of the loaders: .str.strip().str.lstrip("'")
NormalizeArea(s) == IF s = NaNStr THEN NaNStr ELSE LStripSet(Strip(s), {"'"})

(***************************************************************************)
(* Sales Analysis CSV files (the input of _load_sales).                    *)
(***************************************************************************)
SalesCols ==
    {"ECF_Area", "Parcel_Number", "Street_Address", "Sale_Date",
     "Sale_Price", "Adj_Sale", "Terms_of_Sale"}

T_AR4 == <<"A", "R", "-", "4">>

T_ARF == <<"A", "R", "F">>

AreaChoices == {T_AR4, T_ARF}

T_L1 == <<"L", "-", "1">>

T_L2 == <<"L", "-", "2">>

\* 05/25/2022
D_0525_22 == <<"0", "5", "/", "2", "5", "/", "2", "0", "2", "2">>

\* 5/25/2022
D_525_22 == <<"5", "/", "2", "5", "/", "2", "0", "2", "2">>

\* 2022-05-25
D_ISO_22 == <<"2", "0", "2", "2", "-", "0", "5", "-", "2", "5">>

\* 12/01/2021
D_1201_21 == <<"1", "2", "/", "0", "1", "/", "2", "0", "2", "1">>

\* 05/25/2023
D_0525_23 == <<"0", "5", "/", "2", "5", "/", "2", "0", "2", "3">>

M_300 == <<"$", "3", "0", "0", ",", "0", "0", "0">>

M_310 == <<"3", "1", "0", "0", "0", "0">>

M_150 == <<"1", "5", "0", "0", "0", "0">>

M_149 == <<"1", "4", "9", ",", "9", "9", "9">>

M_400 == <<"4", "0", "0", "0", "0", "0">>

T_ARM == <<"A", "R", "M">>

T_arm == <<"a", "r", "m", "s">>

T_QCD == <<"Q", "C", "D">>

SalesRow(area, parcel, addr, date, price, adj, terms) ==
    [ECF_Area |-> area, Parcel_Number |-> parcel, Street_Address |-> addr,
     Sale_Date |-> date, Sale_Price |-> price, Adj_Sale |-> adj,
     Terms_of_Sale |-> terms]

\* the raw rows the sales files are built from
SalesRowSamples ==
    { SalesRow(T_AR4, T_L1, <<"1", "A">>, D_0525_22, M_300, M_300, T_ARM),
      SalesRow(<<" ", "'">> \o T_AR4, T_L1 \o <<" ">>, <<"1", "A">>, D_525_22,
               M_310, M_310, T_arm),
      SalesRow(T_AR4, T_L1, <<"1", "A">>, D_ISO_22, M_150, M_150, T_ARM),
      SalesRow(T_AR4, T_L2, <<"2", "A">>, D_1201_21, M_149, M_149, T_ARM),
      SalesRow(T_AR4, T_L2, <<"2", "A">>, D_0525_23, M_400, <<>>, T_ARM),
      SalesRow(T_AR4, T_L2, <<"2", "A">>, D_1201_21, M_400, M_400, T_ARM),
      SalesRow(T_ARF, T_L2, <<"2", "F">>, D_0525_23, M_400, M_400, T_QCD),
      SalesRow(T_ARF, T_L1, <<"1", "F">>, D_1201_21, M_400, M_400, <<>>) }

\* column sets a yearly sales file can come with
SalesColSets ==
    { SalesCols, SalesCols \ {"Terms_of_Sale"}, SalesCols \ {"ECF_Area"},
      SalesCols \ {"Sale_Date"} }

NoFile == [exists |-> FALSE]

CsvFile(cols, rows) ==
    [exists |-> TRUE, cols |-> cols,
     rows |-> [i \in 1..Len(rows) |-> Restrict(rows[i], cols)]]

\* size of one yearly file: its rows, plus one for a missing file or column
FileSize(f, fullCols) ==
    IF ~f.exists THEN 1
    ELSE Len(f.rows) + (IF f.cols = fullCols THEN 0 ELSE 1)

\* the yearly files of size at most n
FilesUpTo(samples, colSets, fullCols, n) ==
    {f \in {NoFile} \cup {CsvFile(cols, rows) : cols \in colSets,
                                               rows \in SeqsUpTo(samples, n)} :
        FileSize(f, fullCols) <= n}

(***************************************************************************)
(* _load_sales: one iteration of its loop over YEARS.                      *)
(***************************************************************************)
SalesNumericCols == {"Sale_Price", "Adj_Sale"}

LoadSalesRow(r, cols, year) ==
    [c \in cols \cup SalesNumericCols \cup {"_year"} |->
        IF c = "_year" THEN year
        ELSE IF c \in SalesNumericCols
             THEN (IF c \in cols THEN ToNumericMoney(ReadCsvField(r[c])) ELSE NA)
        ELSE IF c = "ECF_Area" THEN NormalizeArea(ReadCsvField(r[c]))
        ELSE ReadCsvField(r[c])]

LoadSalesFrame(f, year) ==
    [cols |-> f.cols \cup SalesNumericCols \cup {"_year"},
     rows |-> [i \in 1..Len(f.rows) |-> LoadSalesRow(f.rows[i], f.cols, year)]]

\* frames[year] = df, or the year is skipped when the file does not exist
PutFrame(frames, year, f, frame) ==
    IF ~f.exists THEN frames
    ELSE [y \in DOMAIN frames \cup {year} |-> IF y = year THEN frame ELSE frames[y]]

(***************************************************************************)
(* pd.to_datetime(format="mixed", dayfirst=False) followed by              *)
(* .dt.strftime("%Y-%m-%d"), one cell at a time.                           *)
(***************************************************************************)
DaysInMonth(m) ==
    IF m \in {4, 6, 9, 11} THEN 30 ELSE IF m = 2 THEN 29 ELSE 31

ValidYMD(y, m, d) == m \in 1..12 /\ d \in 1..DaysInMonth(m) /\ y \in 1..9999

BadDate == [ok |-> FALSE]

YMD(y, m, d) ==
    IF ValidYMD(y, m, d) THEN [ok |-> TRUE, y |-> y, m |-> m, d |-> d] ELSE BadDate

\* the calendar date a date text denotes; BadDate when parsing raises
ParseDate(s) ==
    LET bySlash == SplitOn(s, "/", <<>>)
        byDash == SplitOn(s, "-", <<>>)
        num(p) == DigitsToInt(p, 0)
        allNum(ps) == \A i \in 1..Len(ps) : IsDigits(ps[i])
    IN  IF Len(bySlash) = 3 /\ allNum(bySlash)
        THEN LET a == num(bySlash[1])
                 b == num(bySlash[2])
                 y == num(bySlash[3])
             IN  \* month first; a first number above 12 is read as the day
                 IF a > 12 /\ b <= 12 THEN YMD(y, b, a) ELSE YMD(y, a, b)
        ELSE IF Len(byDash) = 3 /\ allNum(byDash) /\ Len(byDash[1]) = 4
        THEN YMD(num(byDash[1]), num(byDash[2]), num(byDash[3]))
        ELSE BadDate

Pad2(n) == <<DigitChar(n \div 10), DigitChar(n % 10)>>

Pad4(n) == Pad2(n \div 100) \o Pad2(n % 100)

\* strftime("%Y-%m-%d")
StrfTime(dt) == Pad4(dt.y) \o <<"-">> \o Pad2(dt.m) \o <<"-">> \o Pad2(dt.d)

\* variant that keys on the date text as written
NormDate_AsWritten(s) == s

\* the _norm_date cell of a Sale_Date cell (NaN gives NaT gives NaN)
NormDate(s) == IF s = NaNStr THEN NaNStr ELSE StrfTime(ParseDate(s))

DateParses(s) == s = NaNStr \/ ParseDate(s).ok

(***************************************************************************)
(* get_comparable_sales                                                    *)
(***************************************************************************)
ComparableCols ==
    {"Parcel_Number", "Street_Address", "Sale_Date", "Sale_Price", "Adj_Sale", "_year"}

\* Terms_of_Sale.str.contains("ARM", na=False, case=False)
IsArmsLength(terms) == terms # NaNStr /\ Contains(Upper(terms), T_ARM)

\* variant without the lot-only floor
AtOrAboveThreshold_NoFloor(adj) == ~IsNA(adj)

\* Adj_Sale.notna() & (Adj_Sale >= LOT_ONLY_THRESHOLD)
AtOrAboveThreshold(adj) == ~IsNA(adj) /\ adj[1] >= LOT_ONLY_THRESHOLD

\* the rows of one yearly frame left after the three filters
QualifyingRows(frame, area) ==
    LET area_df == SelectSeq(frame.rows, LAMBDA r : r["ECF_Area"] = area)
        arm_df == IF "Terms_of_Sale" \in frame.cols
                  THEN SelectSeq(area_df, LAMBDA r : IsArmsLength(r["Terms_of_Sale"]))
                  ELSE area_df
    IN  SelectSeq(arm_df, LAMBDA r : AtOrAboveThreshold(r["Adj_Sale"]))

RECURSIVE CollectSales(_, _, _)
\* the loop over data["sales"]: all_sales concatenated, or the KeyError of
\* the column selection
CollectSales(sales, area, i) ==
    IF i > Len(YEARS) THEN [status |-> "ok", rows |-> <<>>]
    ELSE LET year == YEARS[i]
             rest == CollectSales(sales, area, i + 1)
         IN  IF year \notin DOMAIN sales \/ "ECF_Area" \notin sales[year].cols
             THEN rest
             ELSE LET q == QualifyingRows(sales[year], area)
                  IN  IF Len(q) = 0 THEN rest
                      ELSE IF ~(ComparableCols \subseteq sales[year].cols)
                      THEN [status |-> "KeyError", rows |-> <<>>]
                      ELSE IF rest.status # "ok" THEN rest
                      ELSE [status |-> "ok",
                            rows |-> [k \in 1..Len(q) |-> Restrict(q[k], ComparableCols)]
                                     \o rest.rows]

\* _dedup_key = Parcel_Number.str.strip() + "_" + _norm_date
DedupKey(r) ==
    IF r["Parcel_Number"] = NaNStr \/ r["Sale_Date"] = NaNStr THEN NaNStr
    ELSE StrStrip(r["Parcel_Number"]) \o <<"_">> \o NormDate(r["Sale_Date"])

\* variant that keeps the first row of each key
DropDuplicatesKeepFirst(rows) ==
    LET keep == {i \in 1..Len(rows) :
                    \A j \in 1..(i - 1) : DedupKey(rows[j]) # DedupKey(rows[i])}
        F[i \in 0..Len(rows)] ==
            IF i = 0 THEN <<>>
            ELSE IF i \in keep THEN Append(F[i - 1], rows[i]) ELSE F[i - 1]
    IN  F[Len(rows)]

\* drop_duplicates(subset="_dedup_key", keep="last")
DropDuplicatesKeepLast(rows) ==
    LET keep == {i \in 1..Len(rows) :
                    \A j \in (i + 1)..Len(rows) : DedupKey(rows[j]) # DedupKey(rows[i])}
        F[i \in 0..Len(rows)] ==
            IF i = 0 THEN <<>>
            ELSE IF i \in keep THEN Append(F[i - 1], rows[i]) ELSE F[i - 1]
    IN  F[Len(rows)]

\* r sorts strictly before q under sort_values("Sale_Date", ascending=False):
\* the column holds text, NaN goes last
SortsBefore(r, q) ==
    IF r["Sale_Date"] = NaNStr THEN FALSE
    ELSE IF q["Sale_Date"] = NaNStr THEN TRUE
    ELSE StrLess(q["Sale_Date"], r["Sale_Date"])

RECURSIVE InsertSorted(_, _)
InsertSorted(sorted, r) ==
    IF sorted = <<>> THEN <<r>>
    ELSE IF SortsBefore(r, Head(sorted)) THEN <<r>> \o sorted
    ELSE <<Head(sorted)>> \o InsertSorted(Tail(sorted), r)

\* sort_values("Sale_Date", ascending=False); rows with equal keys keep
\* their order
SortBySaleDateDesc(rows) ==
    LET F[i \in 0..Len(rows)] ==
            IF i = 0 THEN <<>> ELSE InsertSorted(F[i - 1], rows[i])
    IN  F[Len(rows)]

get_comparable_sales(d, area) ==
    LET all_sales == CollectSales(d.sales, area, 1)
    IN  IF all_sales.status # "ok" THEN all_sales
        ELSE IF all_sales.rows = <<>> THEN [status |-> "ok", rows |-> <<>>]
        ELSE IF \E i \in 1..Len(all_sales.rows) :
                    ~DateParses(all_sales.rows[i]["Sale_Date"])
        THEN [status |-> "ValueError", rows |-> <<>>]
        ELSE [status |-> "ok",
              rows |-> SortBySaleDateDesc(DropDuplicatesKeepLast(all_sales.rows))]

(***************************************************************************)
(* check_sales_coverage                                                    *)
(***************************************************************************)
\* df[df[col] == area_code]
AreaRows(frame, col, area) == SelectSeq(frame.rows, LAMBDA r : r[col] = area)

CountArea(rows, col, area) == Cardinality({i \in 1..Len(rows) : rows[i][col] = area})

\* variant that counts only the rows that qualify as comparable sales
check_sales_coverage_QualifyingOnly(d, area) ==
    [year \in DOMAIN d.sales |->
        IF "ECF_Area" \notin d.sales[year].cols THEN 0
        ELSE Len(QualifyingRows(d.sales[year], area))]

check_sales_coverage(d, area) ==
    [year \in DOMAIN d.sales |->
        IF "ECF_Area" \notin d.sales[year].cols THEN 0
        ELSE CountArea(d.sales[year].rows, "ECF_Area", area)]

(***************************************************************************)
(* State of the loader and the evidence aggregator.                        *)
(*   data       the dict of load_all_data: per kind, year -> frame         *)
(*   load_pc    the loader's position: dataset kind, index into YEARS and  *)
(*              the size of the input read so far                          *)
(*   area_code  the target area code of the aggregator calls               *)
(*   views      the last result of each aggregator operation for area_code *)
(*   summary_csv  the rows pd.read_csv returned for the area-level summary *)
(*              file of each year read so far                              *)
(***************************************************************************)
NoArea == <<>>

NotRun == [status |-> "not_run"]

ViewNames ==
    {"ecf_trend", "ecf_properties", "subdivision", "comparable_sales",
     "land_trends", "coverage"}

EmptyData ==
    [sales |-> <<>>, ecf_analysis |-> <<>>, ecf_summaries |-> <<>>,
     land |-> <<>>, land_adj |-> <<>>]

LoadPc(kind, idx, used) == [kind |-> kind, idx |-> idx, used |-> used]

Loaded == load_pc.kind = "done"

\* the position after the file of YEARS[load_pc.idx] of size n is read
NextLoadPc(n, nextKind) ==
    IF load_pc.idx < Len(YEARS)
    THEN LoadPc(load_pc.kind, load_pc.idx + 1, load_pc.used + n)
    ELSE LoadPc(nextKind, 1, IF nextKind = "done" THEN 0 ELSE load_pc.used + n)

\* no petition is being composed
AppealIdle ==
    /\ user_sev = 0
    /\ subdivision = <<>>
    /\ ecf_trend = <<>>
    /\ ecf_props = <<>>
    /\ sales_df = <<>>
    /\ land_trends = <<>>
    /\ coverage = <<>>
    /\ sales_stats = NotRun
    /\ banner = NotRun
    /\ summary = NotRun
    /\ appeal_pc = "idle"

\* prop: PropertyData | None = None
NoProp == [none |-> TRUE]

\* uploaded_file is None
NoPdf == [state |-> "none"]

\* no record card has been uploaded
ParseIdle ==
    /\ pdf = NoPdf
    /\ prop = NoProp
    /\ parse_pc = "idle"

AggInit(firstKind) ==
    /\ data = EmptyData
    /\ load_pc = LoadPc(firstKind, 1, 0)
    /\ area_code = NoArea
    /\ views = [v \in ViewNames |-> NotRun]
    /\ summary_csv = <<>>

\* _load_sales, the iteration for YEARS[load_pc.idx]
LoadSales(samples, colSets, maxInput, nextKind) ==
    /\ load_pc.kind = "sales"
    /\ \E f \in FilesUpTo(samples, colSets, SalesCols,
                          maxInput - load_pc.used) :
          LET year == YEARS[load_pc.idx]
          IN  /\ data' = [data EXCEPT !.sales =
                            PutFrame(@, year, f, LoadSalesFrame(f, year))]
              /\ load_pc' = NextLoadPc(FileSize(f, SalesCols), nextKind)
    /\ UNCHANGED <<area_code, views>>
    /\ UNCHANGED <<summary_csv, appealVars, parseVars>>

\* a new target area code: the evidence views are recomputed from scratch
SelectArea ==
    /\ Loaded
    /\ \E a \in AreaChoices :
          /\ a # area_code
          /\ area_code' = a
    /\ views' = [v \in ViewNames |-> NotRun]
    /\ UNCHANGED <<data, load_pc>>
    /\ UNCHANGED <<summary_csv, appealVars, parseVars>>

\* variant that filters the cached yearly frames in place instead of a copy
RunGetComparableSales_InPlace ==
    /\ Loaded
    /\ area_code # NoArea
    /\ views' = [views EXCEPT !["comparable_sales"] =
                    get_comparable_sales(data, area_code)]
    /\ data' = [data EXCEPT !.sales =
                  [y \in DOMAIN @ |->
                      IF "ECF_Area" \notin @[y].cols THEN @[y]
                      ELSE [@[y] EXCEPT !.rows = AreaRows(data.sales[y], "ECF_Area", area_code)]]]
    /\ UNCHANGED <<load_pc, area_code>>
    /\ UNCHANGED <<summary_csv, appealVars, parseVars>>

RunGetComparableSales ==
    /\ Loaded
    /\ area_code # NoArea
    /\ views' = [views EXCEPT !["comparable_sales"] =
                    get_comparable_sales(data, area_code)]
    /\ UNCHANGED <<data, load_pc, area_code>>
    /\ UNCHANGED <<summary_csv, appealVars, parseVars>>

RunCheckSalesCoverage ==
    /\ Loaded
    /\ area_code # NoArea
    /\ views' = [views EXCEPT !["coverage"] =
                    [status |-> "ok", counts |-> check_sales_coverage(data, area_code)]]
    /\ UNCHANGED <<data, load_pc, area_code>>
    /\ UNCHANGED <<summary_csv, appealVars, parseVars>>

(***************************************************************************)
(* Spec: the sales tables are loaded, then the sales operations of the     *)
(* aggregator run for any selected area, any number of times.              *)
(***************************************************************************)
Init == AggInit("sales") /\ AppealIdle /\ ParseIdle

Next ==
    \/ LoadSales(SalesRowSamples, SalesColSets, MaxSalesInput, "done")
    \/ SelectArea
    \/ RunGetComparableSales
    \/ RunCheckSalesCoverage

Spec == Init /\ [][Next]_vars

(***************************************************************************)
(* Claims on the comparable-sales set.                                     *)
(***************************************************************************)
ComparableSalesReturned == views["comparable_sales"].status = "ok"

SalesOut == views["comparable_sales"].rows

\* the qualifying rows of the loaded sales tables for the target area,
\* as <<year, row>> pairs
QualifyingInput ==
    {<<y, r>> \in UNION {{<<yy, data.sales[yy].rows[i]>> :
                             i \in 1..Len(data.sales[yy].rows)} :
                          yy \in {z \in DOMAIN data.sales :
                                    "ECF_Area" \in data.sales[z].cols}} :
        /\ r["ECF_Area"] = area_code
        /\ "Terms_of_Sale" \in DOMAIN r => IsArmsLength(r["Terms_of_Sale"])
        /\ ~IsNA(r["Adj_Sale"]) /\ r["Adj_Sale"][1] >= 150000}

\* C1: every row of the comparable-sales output has a non-missing adjusted
\* sale price of at least 150,000.
C1_ThresholdInvariant ==
    ComparableSalesReturned =>
        \A i \in 1..Len(SalesOut) :
            /\ SalesOut[i]["Adj_Sale"] # NA
            /\ SalesOut[i]["Adj_Sale"][1] >= 150000

\* a table was returned with a row in it while the target area also has an
\* arm's-length row priced below the threshold and one with no price
C1_Witness ==
    /\ ComparableSalesReturned
    /\ Len(SalesOut) > 0
    /\ \E y \in DOMAIN data.sales : \E i \in 1..Len(data.sales[y].rows) :
          LET r == data.sales[y].rows[i]
          IN  /\ "ECF_Area" \in DOMAIN r /\ r["ECF_Area"] = area_code
              /\ r["Adj_Sale"] = NA \/ r["Adj_Sale"][1] < 150000

\* the calendar date and trimmed parcel of a row that has both
HasParcelAndDate(r) ==
    /\ "Parcel_Number" \in DOMAIN r /\ r["Parcel_Number"] # NaNStr
    /\ "Sale_Date" \in DOMAIN r /\ r["Sale_Date"] # NaNStr

SameSale(r, q) ==
    /\ HasParcelAndDate(r) /\ HasParcelAndDate(q)
    /\ Strip(r["Parcel_Number"]) = Strip(q["Parcel_Number"])
    /\ ParseDate(r["Sale_Date"]) = ParseDate(q["Sale_Date"])

\* C2: when two qualifying rows have the same trimmed parcel number and the
\* same calendar sale date, in whatever format the dates are written, the
\* returned comparable-sales table holds exactly one row for that pair.
C2_DedupInvariant ==
    ComparableSalesReturned =>
        \A p \in QualifyingInput : \A q \in QualifyingInput :
            (p # q /\ SameSale(p[2], q[2])) =>
                Cardinality({i \in 1..Len(SalesOut) : SameSale(SalesOut[i], p[2])}) = 1

\* two qualifying rows of different years carry the same sale with the date
\* written differently, and a table was returned
C2_Witness ==
    /\ ComparableSalesReturned
    /\ \E p \in QualifyingInput : \E q \in QualifyingInput :
          /\ p[1] # q[1]
          /\ SameSale(p[2], q[2])
          /\ p[2]["Sale_Date"] # q[2]["Sale_Date"]

(***************************************************************************)
(* ECF Analysis (per property) and ECF Summaries (per area) CSV files.     *)
(***************************************************************************)
MaxEcfInput == 2

EcfCols ==
    {"ECF_Area_Code", "Street_Address", "Parcel_Number", "Sale_Price",
     "Cost_Man", "ECF"}

\* a per-property file may carry the area under ECF_Area, or have no ECF column
EcfColSets ==
    { EcfCols, (EcfCols \ {"ECF_Area_Code"}) \cup {"ECF_Area"}, EcfCols \ {"ECF"} }

R_0850 == <<"0", ".", "8", "5", "0">>

R_0100 == <<"0", ".", "1">>

R_5000 == <<"5", ".", "0">>

R_7500 == <<"7", ".", "5">>

R_0050 == <<"0", ".", "0", "5">>

R_ZERO == <<"0">>

R_1100 == <<"1", ".", "1", "0", "0">>

EcfRow(area, addr, parcel, ecf) ==
    [ECF_Area_Code |-> area, ECF_Area |-> area, Street_Address |-> addr,
     Parcel_Number |-> parcel, Sale_Price |-> M_300, Cost_Man |-> M_310,
     ECF |-> ecf]

EcfRowSamples ==
    { EcfRow(T_AR4, <<"1", "A">>, T_L1, R_0850),
      EcfRow(<<"'">> \o T_AR4, <<"2", "A">>, T_L2, R_7500),
      EcfRow(T_AR4, <<"2", "A">>, T_L2, R_0100),
      EcfRow(T_AR4, <<>>, T_L2, R_0050),
      EcfRow(T_ARF, <<"1", "F">>, T_L1, R_5000),
      EcfRow(T_ARF, <<"2", "F">>, T_L2, <<>>) }

SummaryCols == {"ECF_Area", "Subdivision", "Ave_ECF"}

T_MDW == <<"M", "D", "W">>

T_FRM == <<"F", "R", "M">>

SummaryRow(area, sub, ave) == [ECF_Area |-> area, Subdivision |-> sub, Ave_ECF |-> ave]

SummaryRowSamples ==
    { SummaryRow(T_AR4, T_MDW, R_0850),
      SummaryRow(T_AR4, <<>>, <<>>),
      SummaryRow(<<" ", "'">> \o T_AR4, T_FRM, R_7500),
      SummaryRow(<<"'", " ">> \o T_AR4, T_MDW, R_0850),
      SummaryRow(T_AR4, T_MDW, R_ZERO),
      SummaryRow(T_ARF, T_FRM, R_1100) }

(***************************************************************************)
(* _load_ecf_analysis and _load_ecf_summaries, one year at a time.         *)
(***************************************************************************)
EcfMoneyCols == {"Sale_Price", "Cost_Man"}

\* df.loc[~df["ECF"].between(0.1, 5.0), "ECF"] = pd.NA  (both ends inclusive)
EcfInDomain(v) ==
    IF v # NA /\ v[1] >= RATIO_ONE \div 10 /\ v[1] <= 5 * RATIO_ONE THEN v ELSE NA

LoadEcfRow(r, cols, year) ==
    [c \in cols \cup {"_year"} |->
        IF c = "_year" THEN year
        ELSE IF c = "ECF_Area_Code" THEN NormalizeArea(ReadCsvField(r[c]))
        ELSE IF c \in EcfMoneyCols THEN ToNumericMoney(ReadCsvField(r[c]))
        ELSE IF c = "ECF" THEN EcfInDomain(ToNumericRatio(ReadCsvField(r[c])))
        ELSE ReadCsvField(r[c])]

LoadEcfFrame(f, year) ==
    [cols |-> f.cols \cup {"_year"},
     rows |-> [i \in 1..Len(f.rows) |-> LoadEcfRow(f.rows[i], f.cols, year)]]

\* the first non-missing value of a column over the rows of a group
\* (groupby(...).agg(col=(col, "first")))
RECURSIVE FirstNonNull(_, _, _)
FirstNonNull(rows, col, missing) ==
    IF rows = <<>> THEN missing
    ELSE IF Head(rows)[col] # missing THEN Head(rows)[col]
    ELSE FirstNonNull(Tail(rows), col, missing)

RECURSIVE SortedTexts(_)
\* the texts of a set in ascending order (groupby sorts its keys)
SortedTexts(S) ==
    IF S = {} THEN <<>>
    ELSE LET least == CHOOSE x \in S : \A y \in S \ {x} : StrLess(x, y)
         IN  <<least>> \o SortedTexts(S \ {least})

LoadSummaryFrame(f, year) ==
    LET parsed == [i \in 1..Len(f.rows) |->
                     [ECF_Area |-> NormalizeArea(ReadCsvField(f.rows[i]["ECF_Area"])),
                      Subdivision |-> ReadCsvField(f.rows[i]["Subdivision"]),
                      Ave_ECF |-> ToNumericRatio(ReadCsvField(f.rows[i]["Ave_ECF"]))]]
        keys == SortedTexts({parsed[i]["ECF_Area"] : i \in 1..Len(parsed)} \ {NaNStr})
        group(k) == SelectSeq(parsed, LAMBDA r : r["ECF_Area"] = k)
    IN  [cols |-> SummaryCols \cup {"_year"},
         rows |-> [g \in 1..Len(keys) |->
                     [ECF_Area |-> keys[g],
                      Subdivision |-> FirstNonNull(group(keys[g]), "Subdivision", NaNStr),
                      Ave_ECF |-> FirstNonNull(group(keys[g]), "Ave_ECF", NA),
                      _year |-> year]]]

(***************************************************************************)
(* get_ecf_trend, get_ecf_properties                                       *)
(***************************************************************************)
\* variant that leaves out the years in which the area has no row
get_ecf_trend_SkipAbsent(d, area) ==
    [year \in {y \in DOMAIN d.ecf_summaries :
                  Len(AreaRows(d.ecf_summaries[y], "ECF_Area", area)) > 0} |->
        LET match == AreaRows(d.ecf_summaries[year], "ECF_Area", area)
        IN  IF match[1]["Ave_ECF"] # NA THEN Some(match[1]["Ave_ECF"][1]) ELSE NA]

\* year -> <<factor>>, or NA where the code records None
get_ecf_trend(d, area) ==
    [year \in DOMAIN d.ecf_summaries |->
        LET match == AreaRows(d.ecf_summaries[year], "ECF_Area", area)
        IN  IF Len(match) > 0 /\ match[1]["Ave_ECF"] # NA
            THEN Some(match[1]["Ave_ECF"][1])
            ELSE NA]

\* str(row.get(col, "")).strip()
RowText(r, col) ==
    IF col \notin DOMAIN r THEN <<>>
    ELSE IF r[col] = NaNStr THEN <<"n", "a", "n">>
    ELSE Strip(r[col])

\* row.get(col); the None of an absent column and NaN are both missing
RowGet(r, col) == IF col \in DOMAIN r THEN r[col] ELSE NA

EcfPropertyRecord(year, r) ==
    [year |-> year, address |-> RowText(r, "Street_Address"),
     parcel |-> RowText(r, "Parcel_Number"), sale_price |-> RowGet(r, "Sale_Price"),
     cost_man |-> RowGet(r, "Cost_Man"), ecf |-> RowGet(r, "ECF")]

RECURSIVE CollectEcfProperties(_, _, _)
CollectEcfProperties(frames, area, i) ==
    IF i > Len(YEARS) THEN [status |-> "ok", rows |-> <<>>]
    ELSE LET year == YEARS[i]
             rest == CollectEcfProperties(frames, area, i + 1)
         IN  IF year \notin DOMAIN frames THEN rest
             ELSE LET df == frames[year]
                      area_col == IF "ECF_Area_Code" \in df.cols
                                  THEN "ECF_Area_Code" ELSE "ECF_Area"
                  IN  IF area_col \notin df.cols THEN rest
                      ELSE IF "ECF" \notin df.cols
                      THEN [status |-> "KeyError", rows |-> <<>>]
                      ELSE IF rest.status # "ok" THEN rest
                      ELSE LET area_df == SelectSeq(AreaRows(df, area_col, area),
                                                    LAMBDA r : r["ECF"] # NA)
                           IN  [status |-> "ok",
                                rows |-> [k \in 1..Len(area_df) |->
                                             EcfPropertyRecord(year, area_df[k])]
                                         \o rest.rows]

get_ecf_properties(d, area) == CollectEcfProperties(d.ecf_analysis, area, 1)

(***************************************************************************)
(* Land Analysis and Land Adjustment CSV files and their loaders.          *)
(***************************************************************************)
MaxLandInput == 3

\* Land_Value_Prior / Land_Value_Current stand for the year-specific
\* columns Land_Value_<year-1> / Land_Value_<year> of the file
LandCols == {"Area_Code", "ECF_Area", "Land_Value_Prior", "Land_Value_Current"}

LandColSets == { LandCols, LandCols \ {"Area_Code"}, LandCols \ {"Land_Value_Prior"} }

M_50 == <<"5", "0", ",", "0", "0", "0">>

M_60 == <<"6", "0", "0", "0", "0">>

M_70 == <<"$", "7", "0", "0", "0", "0">>

LandRow(area, prior, current) ==
    [Area_Code |-> area, ECF_Area |-> area, Land_Value_Prior |-> prior,
     Land_Value_Current |-> current]

LandRowSamples ==
    { LandRow(T_AR4, M_50, M_60),
      LandRow(T_AR4 \o <<" ">>, M_60, M_70),
      LandRow(T_AR4, <<>>, M_50),
      LandRow(T_ARF, M_70, M_70) }

LandAdjCols == {"Area_Code", "Adjust_Factor", "Subdivision"}

LandAdjColSets == { LandAdjCols, LandAdjCols \ {"Subdivision"} }

R_1050 == <<"1", ".", "0", "5">>

LandAdjRow(area, factor, sub) ==
    [Area_Code |-> area, Adjust_Factor |-> factor, Subdivision |-> sub]

LandAdjRowSamples ==
    { LandAdjRow(T_AR4, R_1050, T_MDW),
      LandAdjRow(<<"'">> \o T_AR4, <<>>, <<>>),
      LandAdjRow(T_ARF, R_1100, T_FRM) }

LandMoneyCols == {"Land_Value_Prior", "Land_Value_Current"}

LoadLandRow(r, cols, year) ==
    [c \in cols \cup {"_year"} |->
        IF c = "_year" THEN year
        ELSE IF c \in {"ECF_Area", "Area_Code"} THEN NormalizeArea(ReadCsvField(r[c]))
        ELSE IF c \in LandMoneyCols THEN ToNumericMoney(ReadCsvField(r[c]))
        ELSE ReadCsvField(r[c])]

LoadLandFrame(f, year) ==
    [cols |-> f.cols \cup {"_year"},
     rows |-> [i \in 1..Len(f.rows) |-> LoadLandRow(f.rows[i], f.cols, year)]]

LoadLandAdjRow(r, cols, year) ==
    [c \in cols \cup {"_year"} |->
        IF c = "_year" THEN year
        ELSE IF c = "Area_Code" THEN NormalizeArea(ReadCsvField(r[c]))
        ELSE IF c = "Adjust_Factor" THEN ToNumericRatio(ReadCsvField(r[c]))
        ELSE ReadCsvField(r[c])]

LoadLandAdjFrame(f, year) ==
    [cols |-> f.cols \cup {"_year"},
     rows |-> [i \in 1..Len(f.rows) |-> LoadLandAdjRow(f.rows[i], f.cols, year)]]

(***************************************************************************)
(* get_subdivision_name                                                    *)
(***************************************************************************)
ReverseYears == <<2026, 2025, 2024>>

\* the name found in the frames of one kind, most recent year first; <<>> 
\* when none is found
RECURSIVE FindSubdivision(_, _, _, _)
FindSubdivision(frames, areaCol, area, i) ==
    IF i > Len(ReverseYears) THEN <<>>
    ELSE LET year == ReverseYears[i]
             rest == FindSubdivision(frames, areaCol, area, i + 1)
         IN  IF year \notin DOMAIN frames THEN rest
             ELSE LET match == AreaRows(frames[year], areaCol, area)
                  IN  IF Len(match) = 0 THEN rest
                      ELSE LET name == RowText(match[1], "Subdivision")
                           IN  IF name # <<>> /\ name # <<"n", "a", "n">>
                               THEN name ELSE rest

get_subdivision_name(d, area) ==
    LET fromSummaries == FindSubdivision(d.ecf_summaries, "ECF_Area", area, 1)
        fromLandAdj == FindSubdivision(d.land_adj, "Area_Code", area, 1)
    IN  IF fromSummaries # <<>> THEN fromSummaries
        ELSE IF fromLandAdj # <<>> THEN fromLandAdj
        ELSE area

(***************************************************************************)
(* get_land_value_trends                                                   *)
(***************************************************************************)
\* the non-missing values of a column (Series.dropna())
DropNa(rows, col) ==
    LET kept == SelectSeq(rows, LAMBDA r : r[col] # NA)
    IN  [i \in 1..Len(kept) |-> kept[i][col][1]]

Occurrences(vals, v) == Cardinality({i \in 1..Len(vals) : vals[i] = v})

RECURSIVE SortedInts(_)
SortedInts(S) ==
    IF S = {} THEN <<>>
    ELSE LET least == CHOOSE x \in S : \A y \in S : x <= y
         IN  <<least>> \o SortedInts(S \ {least})

\* Series.mode(): the most frequent values, ascending
Mode(vals) ==
    LET values == {vals[i] : i \in 1..Len(vals)}
    IN  SortedInts({v \in values : \A w \in values :
                       Occurrences(vals, w) <= Occurrences(vals, v)})

RECURSIVE SortedBag(_)
\* the values of a sequence in ascending order, repetitions kept
SortedBag(vals) ==
    IF vals = <<>> THEN <<>>
    ELSE LET k == CHOOSE i \in 1..Len(vals) : \A j \in 1..Len(vals) : vals[i] <= vals[j]
         IN  <<vals[k]>> \o SortedBag(SubSeq(vals, 1, k - 1) \o SubSeq(vals, k + 1, Len(vals)))

\* twice Series.median()
MedianX2(vals) ==
    LET sorted == SortedBag(vals)
        n == Len(sorted)
    IN  IF n % 2 = 1 THEN 2 * sorted[(n + 1) \div 2]
        ELSE sorted[n \div 2] + sorted[n \div 2 + 1]

\* float(vals.mode().iloc[0]) if len(vals.mode()) > 0 else float(vals.median()),
\* doubled so that a median is a whole number; NA for the code's None
LandValueX2(land_area, col) ==
    IF col \notin DOMAIN land_area[1] THEN NA
    ELSE LET vals == DropNa(land_area, col)
         IN  IF Len(vals) = 0 THEN NA
             ELSE IF Len(Mode(vals)) > 0 THEN Some(2 * Mode(vals)[1])
             ELSE Some(MedianX2(vals))

LandTrendRow(d, area, year) ==
    LET match == AreaRows(d.land_adj[year], "Area_Code", area)
        land_df == d.land[year]
        land_area == IF year \notin DOMAIN d.land THEN <<>>
                     ELSE IF "Area_Code" \in land_df.cols
                     THEN SelectSeq(land_df.rows,
                                    LAMBDA r : StrStrip(r["Area_Code"]) = area)
                     ELSE SelectSeq(land_df.rows,
                                    LAMBDA r : StrStrip(r["ECF_Area"]) = area)
    IN  [year |-> year,
         adjust_factor |-> RowGet(match[1], "Adjust_Factor"),
         prior_lv_x2 |-> IF Len(land_area) > 0
                         THEN LandValueX2(land_area, "Land_Value_Prior") ELSE NA,
         current_lv_x2 |-> IF Len(land_area) > 0
                           THEN LandValueX2(land_area, "Land_Value_Current") ELSE NA]

RECURSIVE CollectLandTrends(_, _, _)
CollectLandTrends(d, area, i) ==
    IF i > Len(YEARS) THEN <<>>
    ELSE LET year == YEARS[i]
             rest == CollectLandTrends(d, area, i + 1)
         IN  IF year \notin DOMAIN d.land_adj THEN rest
             ELSE IF Len(AreaRows(d.land_adj[year], "Area_Code", area)) = 0 THEN rest
             ELSE <<LandTrendRow(d, area, year)>> \o rest

get_land_value_trends(d, area) == CollectLandTrends(d, area, 1)

(***************************************************************************)
(* Loader steps for the other dataset kinds and the remaining aggregator   *)
(* operations.                                                             *)
(***************************************************************************)
LoadEcfAnalysis(samples, colSets, maxInput, nextKind) ==
    /\ load_pc.kind = "ecf_analysis"
    /\ \E f \in FilesUpTo(samples, colSets, EcfCols, maxInput - load_pc.used) :
          LET year == YEARS[load_pc.idx]
          IN  /\ data' = [data EXCEPT !.ecf_analysis =
                            PutFrame(@, year, f, LoadEcfFrame(f, year))]
              /\ load_pc' = NextLoadPc(FileSize(f, EcfCols), nextKind)
    /\ UNCHANGED <<area_code, views>>
    /\ UNCHANGED <<summary_csv, appealVars, parseVars>>

LoadEcfSummaries(samples, colSets, maxInput, nextKind) ==
    /\ load_pc.kind = "ecf_summaries"
    /\ \E f \in FilesUpTo(samples, colSets, SummaryCols,
                          maxInput - load_pc.used) :
          LET year == YEARS[load_pc.idx]
          IN  /\ data' = [data EXCEPT !.ecf_summaries =
                            PutFrame(@, year, f, LoadSummaryFrame(f, year))]
              /\ summary_csv' = PutFrame(summary_csv, year, f, f.rows)
              /\ load_pc' = NextLoadPc(FileSize(f, SummaryCols), nextKind)
    /\ UNCHANGED <<area_code, views>>
    /\ UNCHANGED <<appealVars, parseVars>>

LoadLand(samples, colSets, maxInput, nextKind) ==
    /\ load_pc.kind = "land"
    /\ \E f \in FilesUpTo(samples, colSets, LandCols, maxInput - load_pc.used) :
          LET year == YEARS[load_pc.idx]
          IN  /\ data' = [data EXCEPT !.land =
                            PutFrame(@, year, f, LoadLandFrame(f, year))]
              /\ load_pc' = NextLoadPc(FileSize(f, LandCols), nextKind)
    /\ UNCHANGED <<area_code, views>>
    /\ UNCHANGED <<summary_csv, appealVars, parseVars>>

LoadLandAdj(samples, colSets, maxInput, nextKind) ==
    /\ load_pc.kind = "land_adj"
    /\ \E f \in FilesUpTo(samples, colSets, LandAdjCols,
                          maxInput - load_pc.used) :
          LET year == YEARS[load_pc.idx]
          IN  /\ data' = [data EXCEPT !.land_adj =
                            PutFrame(@, year, f, LoadLandAdjFrame(f, year))]
              /\ load_pc' = NextLoadPc(FileSize(f, LandAdjCols), nextKind)
    /\ UNCHANGED <<area_code, views>>
    /\ UNCHANGED <<summary_csv, appealVars, parseVars>>

RunGetEcfTrend ==
    /\ Loaded
    /\ area_code # NoArea
    /\ views' = [views EXCEPT !["ecf_trend"] =
                    [status |-> "ok", trend |-> get_ecf_trend(data, area_code)]]
    /\ UNCHANGED <<data, load_pc, area_code>>
    /\ UNCHANGED <<summary_csv, appealVars, parseVars>>

RunGetEcfProperties ==
    /\ Loaded
    /\ area_code # NoArea
    /\ views' = [views EXCEPT !["ecf_properties"] = get_ecf_properties(data, area_code)]
    /\ UNCHANGED <<data, load_pc, area_code>>
    /\ UNCHANGED <<summary_csv, appealVars, parseVars>>

RunGetSubdivisionName ==
    /\ Loaded
    /\ area_code # NoArea
    /\ views' = [views EXCEPT !["subdivision"] =
                    [status |-> "ok", name |-> get_subdivision_name(data, area_code)]]
    /\ UNCHANGED <<data, load_pc, area_code>>
    /\ UNCHANGED <<summary_csv, appealVars, parseVars>>

RunGetLandValueTrends ==
    /\ Loaded
    /\ area_code # NoArea
    /\ views' = [views EXCEPT !["land_trends"] =
                    [status |-> "ok", rows |-> get_land_value_trends(data, area_code)]]
    /\ UNCHANGED <<data, load_pc, area_code>>
    /\ UNCHANGED <<summary_csv, appealVars, parseVars>>

(***************************************************************************)
(* SpecLand: the land tables and the land-adjustment tables are loaded,    *)
(* then the land operations run for any selected area.                     *)
(***************************************************************************)
InitLand == AggInit("land") /\ AppealIdle /\ ParseIdle

NextLand ==
    \/ LoadLand(LandRowSamples, LandColSets, MaxLandInput, "land_adj")
    \/ LoadLandAdj(LandAdjRowSamples, LandAdjColSets, MaxLandInput, "done")
    \/ SelectArea
    \/ RunGetLandValueTrends
    \/ RunGetSubdivisionName

SpecLand == InitLand /\ [][NextLand]_vars

(***************************************************************************)
(* SpecEcf: the per-property and the area-level cost-factor tables are     *)
(* loaded, then the cost-factor operations run for any selected area.      *)
(***************************************************************************)
InitEcf == AggInit("ecf_analysis") /\ AppealIdle /\ ParseIdle

NextEcf ==
    \/ LoadEcfAnalysis(EcfRowSamples, EcfColSets, MaxEcfInput, "ecf_summaries")
    \/ LoadEcfSummaries(SummaryRowSamples, {SummaryCols}, MaxEcfInput, "done")
    \/ SelectArea
    \/ RunGetEcfTrend
    \/ RunGetEcfProperties
    \/ RunGetSubdivisionName

SpecEcf == InitEcf /\ [][NextEcf]_vars

\* v lies strictly between 0.1 and 5.0
InOpenDomain(v) == v > RATIO_ONE \div 10 /\ v < 5 * RATIO_ONE

\* C3: no cost factor outside the open interval (0.1, 5.0) appears in the
\* per-year trend of get_ecf_trend or in the list of get_ecf_properties.
C3_CostFactorDomain ==
    /\ views["ecf_trend"].status = "ok" =>
          \A y \in DOMAIN views["ecf_trend"].trend :
              views["ecf_trend"].trend[y] # NA => InOpenDomain(views["ecf_trend"].trend[y][1])
    /\ views["ecf_properties"].status = "ok" =>
          \A i \in 1..Len(views["ecf_properties"].rows) :
              InOpenDomain(views["ecf_properties"].rows[i].ecf[1])

(***************************************************************************)
(* SpecSession: load_all_data loads the five kinds of tables, then the six *)
(* aggregator operations run in any order and any number of times, for any *)
(* sequence of area-code selections.                                       *)
(***************************************************************************)
MaxSessionInput == 2

\* the session reads files with the full set of columns, built from one
\* row per kind of table
SessionSalesRows ==
    { SalesRow(T_AR4, T_L1, <<"1", "A">>, D_0525_22, M_300, M_300, T_ARM) }

SessionEcfRows == { EcfRow(T_AR4, <<"1", "A">>, T_L1, R_0850) }

SessionSummaryRows == { SummaryRow(T_AR4, T_MDW, R_0850) }

SessionLandRows == { LandRow(T_AR4, M_50, M_60) }

SessionLandAdjRows == { LandAdjRow(T_AR4, R_1050, T_MDW) }

InitSession == AggInit("sales") /\ AppealIdle /\ ParseIdle

NextSession ==
    \/ LoadSales(SessionSalesRows, {SalesCols}, MaxSessionInput, "ecf_analysis")
    \/ LoadEcfAnalysis(SessionEcfRows, {EcfCols}, MaxSessionInput, "ecf_summaries")
    \/ LoadEcfSummaries(SessionSummaryRows, {SummaryCols}, MaxSessionInput, "land")
    \/ LoadLand(SessionLandRows, {LandCols}, MaxSessionInput, "land_adj")
    \/ LoadLandAdj(SessionLandAdjRows, {LandAdjCols}, MaxSessionInput, "done")
    \/ SelectArea
    \/ RunGetEcfTrend
    \/ RunGetEcfProperties
    \/ RunGetSubdivisionName
    \/ RunGetComparableSales
    \/ RunGetLandValueTrends
    \/ RunCheckSalesCoverage

SpecSession == InitSession /\ [][NextSession]_vars

Abs(x) == IF x < 0 THEN 0 - x ELSE x

RECURSIVE GCD(_, _)
GCD(a, b) == IF b = 0 THEN a ELSE GCD(b, a % b)

Frac(n, d) ==
    LET g == GCD(Abs(n), Abs(d))
        sign == IF d < 0 THEN 0 - 1 ELSE 1
    IN  IF g = 0 THEN <<0, 1>> ELSE <<sign * (n \div g), sign * (d \div g)>>

FromInt(i) == <<i, 1>>

\* a ratio held in ten-thousandths, as a number
FromRatio(r) == Frac(r, RATIO_ONE)

FLess(a, b) == a[1] * b[2] < b[1] * a[2]

FLeq(a, b) == a[1] * b[2] <= b[1] * a[2]

\* the factors are reduced crosswise before they are multiplied
FMul(a, b) ==
    LET g1 == GCD(Abs(a[1]), b[2])
        g2 == GCD(Abs(b[1]), a[2])
    IN  Frac((a[1] \div g1) * (b[1] \div g2), (a[2] \div g2) * (b[2] \div g1))

FSub(a, b) == Frac(a[1] * b[2] - b[1] * a[2], a[2] * b[2])

FDiv(a, b) == FMul(a, Frac(b[2], b[1]))

RECURSIVE FMax(_)
\* max() of a non-empty list
FMax(xs) ==
    IF Len(xs) = 1 THEN xs[1]
    ELSE LET m == FMax(Tail(xs)) IN IF FLess(xs[1], m) THEN m ELSE xs[1]

RECURSIVE SumSeq(_)
SumSeq(xs) == IF xs = <<>> THEN 0 ELSE Head(xs) + SumSeq(Tail(xs))

\* variant that rounds a tie up
RoundHalfEven_HalfUp(x) ==
    LET q == x[1] \div x[2]
        r == x[1] % x[2]
    IN  IF 2 * r < x[2] THEN q ELSE q + 1

\* Python round(): to the nearest integer, a tie to the even one
RoundHalfEven(x) ==
    LET q == x[1] \div x[2]
        r == x[1] % x[2]
    IN  IF 2 * r < x[2] THEN q
        ELSE IF 2 * r > x[2] THEN q + 1
        ELSE IF q % 2 = 0 THEN q ELSE q + 1

\* round(rec_low / 2 / 5000) * 5000
RoundToNearest5000(rec_low) == RoundHalfEven(Frac(rec_low[1], rec_low[2] * 10000)) * 5000

(***************************************************************************)
(* compute_sales_stats: sales_df is the comparable-sales table, of which   *)
(* the composer reads the Adj_Sale column.                                 *)
(***************************************************************************)
\* float("nan"): the mean and the median of no prices
NaNValue == <<0, 0>>

compute_sales_stats(df, user_tcv) ==
    IF df = <<>> THEN [count |-> 0]
    ELSE LET prices == DropNa(df, "Adj_Sale")
             count == Len(prices)
             sorted == SortedBag(prices)
             below == Cardinality({i \in 1..count : prices[i] < user_tcv})
         IN  IF count = 0
             THEN [count |-> 0, mean |-> NaNValue, median |-> NaNValue,
                   min |-> NaNValue, max |-> NaNValue,
                   pct_below_tcv |-> FromInt(0), pct_above_tcv |-> FromInt(100),
                   delta_from_median |-> NaNValue, delta_pct |-> FromInt(0),
                   below |-> 0]
             ELSE LET median == Frac(MedianX2(prices), 2)
                      pct_below == Frac(below * 100, count)
                  IN  [count |-> count,
                       mean |-> Frac(SumSeq(prices), count),
                       median |-> median,
                       min |-> FromInt(sorted[1]),
                       max |-> FromInt(sorted[count]),
                       pct_below_tcv |-> pct_below,
                       pct_above_tcv |-> FSub(FromInt(100), pct_below),
                       delta_from_median |-> FSub(FromInt(user_tcv), median),
                       delta_pct |-> IF FLess(FromInt(0), median)
                                     THEN FMul(FDiv(FSub(FromInt(user_tcv), median),
                                                    median),
                                               FromInt(100))
                                     ELSE FromInt(0),
                       \* (prices < user_tcv).sum(), which pct_below_tcv is
                       \* computed from
                       below |-> below]

\* sales_stats.get("count", 0) > 0
HasSales(stats) == stats.count > 0

(***************************************************************************)
(* _compute_recommended_values                                             *)
(***************************************************************************)
\* variant that never takes the cost factor into account
EcfBelowOne_Never(ecf_2026) == FALSE

\* ecf_2026 is not None and ecf_2026 < 1.0
EcfBelowOne(ecf_2026) == ecf_2026 # NA /\ ecf_2026[1] < RATIO_ONE

\* variant whose candidates leave out the mean of the comparable sales
Candidates_NoMean(ecf_2026, user_tcv, stats) ==
    (IF EcfBelowOne(ecf_2026)
     THEN <<FMul(FromInt(user_tcv), FromRatio(ecf_2026[1]))>> ELSE <<>>)
    \o (IF HasSales(stats) THEN <<stats.median>> ELSE <<>>)

\* the candidates list of lines 197-202
Candidates(ecf_2026, user_tcv, stats) ==
    (IF EcfBelowOne(ecf_2026)
     THEN <<FMul(FromInt(user_tcv), FromRatio(ecf_2026[1]))>> ELSE <<>>)
    \o (IF HasSales(stats) THEN <<stats.median, stats.mean>> ELSE <<>>)

\* variant that prefers the cost-factor-adjusted value to the median
Primary_EcfFirst(ecf_2026, user_tcv, stats) ==
    IF EcfBelowOne(ecf_2026) THEN FMul(FromInt(user_tcv), FromRatio(ecf_2026[1]))
    ELSE IF HasSales(stats) THEN stats.median
    ELSE FromInt(user_tcv)

\* lines 207-212: the primary ask
Primary(ecf_2026, user_tcv, stats) ==
    IF HasSales(stats) THEN stats.median
    ELSE IF EcfBelowOne(ecf_2026) THEN FMul(FromInt(user_tcv), FromRatio(ecf_2026[1]))
    ELSE FromInt(user_tcv)

\* the pair (low, high)
compute_recommended_values(ecf_2026, user_tcv, stats) ==
    LET candidates == Candidates(ecf_2026, user_tcv, stats)
    IN  IF candidates = <<>> THEN <<FromInt(user_tcv), FromInt(user_tcv)>>
        ELSE <<Primary(ecf_2026, user_tcv, stats), FMax(candidates)>>

(***************************************************************************)
(* Record-card extractor (rc_parser.py).  The recognised text of a page is *)
(* a sequence of characters.                                               *)
(***************************************************************************)
AssessmentYear(year, land_value, building_value, assessed_value, taxable_value) ==
    [year |-> year, land_value |-> land_value, building_value |-> building_value,
     assessed_value |-> assessed_value, taxable_value |-> taxable_value]

\* PropertyData(): every field at its default (the two raw-text copies of the
\* pages are not carried)
PropertyData ==
    [parcel_number |-> <<>>, address |-> <<>>, area_code |-> <<>>,
     subdivision |-> <<>>, sev_2026 |-> 0, tcv_2026 |-> 0, land_value |-> 0,
     ecf |-> NA, floor_area |-> 0, ground_area |-> 0, basement_sf |-> 0,
     year_built |-> 0, condition |-> <<>>, style |-> <<>>, effective_age |-> 0,
     total_base_new |-> 0, total_depr_cost |-> 0, estimated_tcv_cost |-> 0,
     assessment_history |-> <<>>]

\* x or 0
OrZero(x) == IF x = NA THEN 0 ELSE x[1]

\* int(cleaned) succeeds on a run of digits and raises ValueError on the
\* empty text and on anything else the patterns can capture
clean_number(s) ==
    IF s = <<>> THEN NA
    ELSE LET cleaned == RStripSet(RemoveChars(s, {",", "$"} \cup Whitespace), Letters)
         IN  IF IsDigits(cleaned) THEN Some(DigitsToInt(cleaned, 0)) ELSE NA

RECURSIVE Run(_, _, _)
\* length of the longest run of characters of class cs that starts at i
Run(s, i, cs) ==
    IF i <= Len(s) /\ s[i] \in cs THEN 1 + Run(s, i + 1, cs) ELSE 0

\* the literal lit stands at position i
LitAt(s, i, lit) ==
    /\ i >= 1
    /\ i + Len(lit) - 1 <= Len(s)
    /\ SubSeq(s, i, i + Len(lit) - 1) = lit

RECURSIVE NormalizeFrom(_, _)
\* re.sub(r"(\d)\s*,\s*(\d)", r"\1,\2", text): matches are taken left to
\* right and do not overlap
NormalizeFrom(s, i) ==
    IF i > Len(s) THEN <<>>
    ELSE LET c == i + 1 + Run(s, i + 1, Whitespace)
             j == c + 1 + Run(s, c + 1, Whitespace)
         IN  IF /\ s[i] \in DigitChars
                /\ c <= Len(s) /\ s[c] = ","
                /\ j <= Len(s) /\ s[j] \in DigitChars
             THEN <<s[i], ",", s[j]>> \o NormalizeFrom(s, j + 1)
             ELSE <<s[i]>> \o NormalizeFrom(s, i + 1)

normalize_ocr_numbers(text) == NormalizeFrom(text, 1)

NumberChars == DigitChars \cup {","}

HistoryYears == {<<"2", "0", "2", "3">>, <<"2", "0", "2", "4">>,
                 <<"2", "0", "2", "5">>, <<"2", "0", "2", "6">>}

\* One number column of the history pattern, \s+([\d,]+), read from position
\* p: the pair (start, end) of the captured group, or <<0, 0>>.
NumberColumn(s, p) ==
    LET w == Run(s, p, Whitespace)
        n == Run(s, p + w, NumberChars)
    IN  IF w >= 1 /\ n >= 1 THEN <<p + w, p + w + n - 1>> ELSE <<0, 0>>

\* The history pattern with its year at position y.  The optional leading
\* bar or parenthesis and blanks do not change the groups.  The classes of
\* neighbouring pieces are disjoint, so each run is the longest one.
HistoryMatchAt(s, y) ==
    LET g2 == NumberColumn(s, y + 4)
        g3 == NumberColumn(s, g2[2] + 1)
        g4 == NumberColumn(s, g3[2] + 1)
        g5 == NumberColumn(s, g4[2] + 1)
        ok == /\ y + 3 <= Len(s)
              /\ SubSeq(s, y, y + 3) \in HistoryYears
              /\ g2[1] > 0 /\ g3[1] > 0 /\ g4[1] > 0 /\ g5[1] > 0
              /\ g5[2] + 1 <= Len(s)
              /\ s[g5[2] + 1] \in {"c", "C", "s", "S"}
    IN  IF ok
        THEN [matched |-> TRUE, end |-> g5[2] + 1,
              year |-> DigitsToInt(SubSeq(s, y, y + 3), 0),
              g2 |-> SubSeq(s, g2[1], g2[2]), g3 |-> SubSeq(s, g3[1], g3[2]),
              g4 |-> SubSeq(s, g4[1], g4[2]), g5 |-> SubSeq(s, g5[1], g5[2])]
        ELSE [matched |-> FALSE]

RECURSIVE FindHistory(_, _)
\* history_pattern.finditer(norm): the matches from position i on
FindHistory(s, i) ==
    IF i > Len(s) THEN <<>>
    ELSE LET m == HistoryMatchAt(s, i)
         IN  IF m.matched THEN <<m>> \o FindHistory(s, m.end + 1)
             ELSE FindHistory(s, i + 1)

RECURSIVE InsertByYear(_, _)
\* list.sort(key=year) is stable: ay goes after the entries of its year
InsertByYear(sorted, ay) ==
    IF sorted = <<>> THEN <<ay>>
    ELSE IF Head(sorted).year <= ay.year
    THEN <<Head(sorted)>> \o InsertByYear(Tail(sorted), ay)
    ELSE <<ay>> \o sorted

RECURSIVE SortByYear(_)
SortByYear(hist) ==
    IF hist = <<>> THEN <<>>
    ELSE InsertByYear(SortByYear(SubSeq(hist, 1, Len(hist) - 1)), hist[Len(hist)])

RECURSIVE ApplyHistory(_, _)
\* the loop over the matches: append the row, and a 2026 row sets sev_2026
ApplyHistory(ms, p) ==
    IF ms = <<>> THEN p
    ELSE LET m == Head(ms)
             ay == AssessmentYear(m.year, clean_number(m.g2), clean_number(m.g3),
                                  clean_number(m.g4), clean_number(m.g5))
             p1 == [p EXCEPT !.assessment_history = Append(@, ay)]
             p2 == IF m.year = 2026
                   THEN [p1 EXCEPT !.sev_2026 = OrZero(ay.assessed_value)]
                   ELSE p1
         IN  ApplyHistory(Tail(ms), p2)

\* variant that leaves the rows in the order of the text
parse_assessment_history_Unsorted(text, p) ==
    ApplyHistory(FindHistory(normalize_ocr_numbers(text), 1), p)

parse_assessment_history(text, p) ==
    LET norm == normalize_ocr_numbers(text)
        p1 == ApplyHistory(FindHistory(norm, 1), p)
    IN  [p1 EXCEPT !.assessment_history = SortByYear(@)]

NoMatch == [matched |-> FALSE]

Group(g) == [matched |-> TRUE, group |-> g]

RECURSIVE WordsEnd(_, _, _)
\* The words, separated by \s+, stand at position i: the position after the
\* last word, or 0.
WordsEnd(s, i, words) ==
    IF ~LitAt(s, i, Head(words)) THEN 0
    ELSE LET e == i + Len(Head(words))
             w == Run(s, e, Whitespace)
         IN  IF Len(words) = 1 THEN e
             ELSE IF w = 0 THEN 0
             ELSE WordsEnd(s, e + w, Tail(words))

AmountChars == DigitChars \cup {","} \cup Whitespace

\* The tail \s+([\d,\s]+) (minBlanks = 1) or \s*([\d,\s]+) (minBlanks = 0)
\* read from position p.  The blank run is greedy; when nothing of the
\* group's class follows it, it gives its last blank to the group.
AmountGroup(s, p, minBlanks) ==
    LET w == Run(s, p, Whitespace)
        r == Run(s, p + w, AmountChars)
    IN  IF w >= minBlanks /\ r >= 1 THEN Group(SubSeq(s, p + w, p + w + r - 1))
        ELSE IF r = 0 /\ w >= minBlanks + 1 THEN Group(<<s[p + w - 1]>>)
        ELSE NoMatch

W_2026 == <<"2", "0", "2", "6">>

W_Est == <<"E", "s", "t">>

W_TCV == <<"T", "C", "V">>

\* r"2026\s+Est\s+TCV\s+([\d,\s]+)" tried at position i
TcvMatchAt(s, i) ==
    LET e == WordsEnd(s, i, <<W_2026, W_Est, W_TCV>>)
    IN  IF e = 0 THEN NoMatch ELSE AmountGroup(s, e, 1)

W_Total == <<"T", "o", "t", "a", "l">>

W_EstDot == <<"E", "s", "t", ".">>

W_Land == <<"L", "a", "n", "d">>

W_value == <<"v", "a", "l", "u", "e">>

\* r"Total\s+Est\.\s+Land\s+value\s*=\s*([\d,\s]+)" tried at position i
LandValueMatchAt(s, i) ==
    LET e == WordsEnd(s, i, <<W_Total, W_EstDot, W_Land, W_value>>)
        q == e + Run(s, e, Whitespace)
    IN  IF e = 0 \/ q > Len(s) THEN NoMatch
        ELSE IF s[q] # "=" THEN NoMatch
        ELSE AmountGroup(s, q + 1, 0)

\* re.search: the match at the leftmost position that has one
SearchTcv(s) ==
    LET at == {i \in 1..Len(s) : TcvMatchAt(s, i).matched}
    IN  IF at = {} THEN NoMatch
        ELSE TcvMatchAt(s, CHOOSE i \in at : \A j \in at : i <= j)

SearchLandValue(s) ==
    LET at == {i \in 1..Len(s) : LandValueMatchAt(s, i).matched}
    IN  IF at = {} THEN NoMatch
        ELSE LandValueMatchAt(s, CHOOSE i \in at : \A j \in at : i <= j)

RECURSIVE SplitWords(_)
\* str.split(): the maximal runs of non-blank characters
SplitWords(s) ==
    LET t == LStripSet(s, Whitespace)
        n == IF t = <<>> THEN 0
             ELSE CHOOSE k \in 1..Len(t) :
                      /\ \A i \in 1..k : t[i] \notin Whitespace
                      /\ (k = Len(t) \/ t[k + 1] \in Whitespace)
    IN  IF t = <<>> THEN <<>>
        ELSE <<SubSeq(t, 1, n)>> \o SplitWords(SubSeq(t, n + 1, Len(t)))

RECURSIVE JoinWords(_)
\* " ".join(words)
JoinWords(ws) ==
    IF ws = <<>> THEN <<>>
    ELSE IF Len(ws) = 1 THEN ws[1]
    ELSE ws[1] \o <<" ">> \o JoinWords(Tail(ws))

UpperAlnum == {UpperLetters[i] : i \in 1..26} \cup DigitChars

\* str.replace(old, " ") for a one-character old
ReplaceBySpace(s, old) == [i \in 1..Len(s) |-> IF s[i] = old THEN " " ELSE s[i]]

\* lines 128-135: the name after the area-code prefix "AR4-", dashes and
\* underscores turned into blanks
SubdivisionOf(g) ==
    LET raw == Strip(g)
        r == Run(raw, 1, UpperAlnum)
        raw_sub == IF r >= 1 /\ r + 2 <= Len(raw) /\ raw[r + 1] = "-"
                   THEN Strip(SubSeq(raw, r + 2, Len(raw)))
                   ELSE raw
    IN  Strip(ReplaceBySpace(ReplaceBySpace(raw_sub, "-"), "_"))

\* Page 1 is its recognised text together with what the patterns for the
\* parcel number, the address (either pattern) and the land table capture
\* in it.
parse_page1(page, p) ==
    LET text == page.text
        p1 == IF page.parcel.matched
              THEN [p EXCEPT !.parcel_number = RemoveChars(page.parcel.group, Whitespace)]
              ELSE p
        p2 == IF page.address.matched
              THEN [p1 EXCEPT !.address = JoinWords(SplitWords(page.address.group))]
              ELSE p1
        p3 == IF page.land_table.matched
              THEN [p2 EXCEPT !.area_code = Strip(page.land_table.group[1]),
                              !.subdivision = SubdivisionOf(page.land_table.group[2])]
              ELSE p2
        tcv == SearchTcv(text)
        p4 == IF tcv.matched
              THEN [p3 EXCEPT !.tcv_2026 = OrZero(clean_number(tcv.group))]
              ELSE p3
        lv == SearchLandValue(text)
        p5 == IF lv.matched
              THEN [p4 EXCEPT !.land_value = OrZero(clean_number(lv.group))]
              ELSE p4
    IN  parse_assessment_history(text, p5)

\* the fields of page 2 that are read as integers through _clean_number
Page2Amounts ==
    {"floor_area", "ground_area", "basement_sf", "total_base_new",
     "total_depr_cost", "estimated_tcv_cost"}

\* str.capitalize(): first character upper case, the rest lower case
LowerChar(c) ==
    IF \E i \in 1..26 : UpperLetters[i] = c
    THEN LowerLetters[CHOOSE i \in 1..26 : UpperLetters[i] = c]
    ELSE c

Capitalize(s) ==
    [i \in 1..Len(s) |-> IF i = 1 THEN UpperChar(s[i]) ELSE LowerChar(s[i])]

\* Page 2 is what each of its patterns captures: a group of the pattern's
\* character class, or no match.
parse_page2(page, p) ==
    LET amounts == [f \in Page2Amounts |->
                       IF page[f].matched THEN OrZero(clean_number(page[f].group))
                       ELSE p[f]]
    IN  [p EXCEPT
            !.style = IF page.style.matched THEN Upper(Strip(page.style.group)) ELSE @,
            !.year_built = IF page.year_built.matched
                           THEN DigitsToInt(page.year_built.group, 0) ELSE @,
            !.condition = IF page.condition.matched
                          THEN Capitalize(page.condition.group) ELSE @,
            !.effective_age = IF page.effective_age.matched
                              THEN DigitsToInt(page.effective_age.group, 0) ELSE @,
            !.floor_area = amounts["floor_area"],
            !.ground_area = amounts["ground_area"],
            !.basement_sf = amounts["basement_sf"],
            !.total_base_new = amounts["total_base_new"],
            !.total_depr_cost = amounts["total_depr_cost"],
            !.estimated_tcv_cost = amounts["estimated_tcv_cost"],
            !.ecf = IF page.ecf.matched THEN DecimalToRatio(page.ecf.group) ELSE @]

\* variant whose derived value is rounded up
DerivedSev_RoundUp(tcv) == (tcv + 1) \div 2

\* prop.tcv_2026 // 2
DerivedSev(tcv) == tcv \div 2

\* lines 240-242: the assessed value is derived when the history gave none
SevFallback(p) ==
    IF p.sev_2026 = 0 /\ p.tcv_2026 > 0
    THEN [p EXCEPT !.sev_2026 = DerivedSev(p.tcv_2026)]
    ELSE p

(***************************************************************************)
(* Record cards: the uploaded bytes, as what opening them and recognising  *)
(* their pages gives.                                                      *)
(***************************************************************************)
MaxPageLines == 2

N_9600 == <<"9", ",", "6", "0", "0">>

N_33132 == <<"3", "3", ",", "1", "3", "2">>

N_42732 == <<"4", "2", ",", "7", "3", "2">>

N_13794 == <<"1", "3", ",", "7", "9", "4">>

N_85464 == <<"8", "5", ",", "4", "6", "4">>

N_85465 == <<"8", "5", ",", "4", "6", "5">>

\* a figure with the blanks the recognition puts around a comma
N_42732_OCR == <<"4", "2", " ", ",", " ", "7", "3", "2">>

N_8900 == <<"8", ",", "9", "0", "0">>

N_41237 == <<"4", "1", ",", "2", "3", "7">>

N_31890 == <<"3", "1", ",", "8", "9", "0">>

W_2025 == <<"2", "0", "2", "5">>

TcvLine(amount) == W_2026 \o <<" ">> \o W_Est \o <<" ">> \o W_TCV \o <<" ">> \o amount

LandValueLine(amount) ==
    W_Total \o <<" ">> \o W_EstDot \o <<" ">> \o W_Land \o <<" ">> \o W_value
    \o <<" ", "=", " ">> \o amount

HistoryLine(lead, year, land, building, assessed, taxable, mark) ==
    lead \o year \o <<" ">> \o land \o <<" ">> \o building \o <<" ">> \o assessed
    \o <<" ">> \o taxable \o mark

\* |2026 9,600 33,132 42,732 13,794c
L_H2026 == HistoryLine(<<"|">>, W_2026, N_9600, N_33132, N_42732, N_13794, <<"c">>)

\* (2026 9,600 33,132 42 , 732 13,794C
L_H2026_OCR ==
    HistoryLine(<<"(">>, W_2026, N_9600, N_33132, N_42732_OCR, N_13794, <<"C">>)

\* |2025 8,900 33,132 41,237 31,890c
L_H2025 == HistoryLine(<<"|">>, W_2025, N_8900, N_33132, N_41237, N_31890, <<"c">>)

\* a 2026 row whose taxable value lost its trailing letter
L_H2026_NoMark ==
    HistoryLine(<<"|">>, W_2026, N_9600, N_33132, N_42732, N_13794, <<>>)

\* the label with no figure after it
L_TCV_Blank == TcvLine(<<" ", "-">>)

L_School == <<"S", "c", "h", "o", "o", "l", ":", " ", "A", "N", "N", " ", "A", "R",
      "B", "O", "R">>

PageLineSamples ==
    {TcvLine(N_85464), TcvLine(N_85465), L_TCV_Blank, LandValueLine(N_9600),
     L_H2026, L_H2026_OCR, L_H2025, L_H2026_NoMark, L_School}

RECURSIVE JoinLines(_)
JoinLines(ls) ==
    IF ls = <<>> THEN <<>> ELSE Head(ls) \o <<"\n">> \o JoinLines(Tail(ls))

PageTexts == {JoinLines(ls) : ls \in SeqsUpTo(PageLineSamples, MaxPageLines)}

G_Parcel == <<"L", " ", "-", "1", "2", "-", "3", "4">>

G_Address == <<"4", "5", "6", "7", " ", " ", "A", "S", "H", " ", "D", "R">>

G_LandTable == <<T_AR4, <<"A", "R", "4", "-", "M", "E", "A", "D", "O", "W", "S", "_", "W", "E",
      "S", "T">>>>

OcrError == [ocr |-> "error"]

Page1(text, parcel, address, land_table) ==
    [ocr |-> "ok", text |-> text, parcel |-> parcel, address |-> address,
     land_table |-> land_table]

Page1Samples ==
    {OcrError}
    \cup {Page1(t, NoMatch, NoMatch, NoMatch) : t \in PageTexts}
    \cup {Page1(t, Group(G_Parcel), Group(G_Address), Group(G_LandTable)) : t \in PageTexts}

G_Style == <<"T", "W", "O", "-", "S", "T", "O", "R", "Y">>

G_Year == <<"1", "9", "9", "8">>

G_Condition == <<"G", "O", "O", "D">>

G_Age == <<"2", "5">>

G_FloorArea == <<"2", ",", "1", "5", "0">>

G_Basement == <<"1", ",", "0", "7", "5">>

G_BaseNew == <<"3", "1", "0", ",", "5", "0", "0">>

G_Ecf == <<"0", ".", "8", "0", "2">>

Page2Fields ==
    Page2Amounts \cup {"style", "year_built", "condition", "effective_age", "ecf"}

Page2Empty == [f \in Page2Fields |-> NoMatch] @@ [ocr |-> "ok"]

Page2Full ==
    [ocr |-> "ok", style |-> Group(G_Style), year_built |-> Group(G_Year),
     condition |-> Group(G_Condition), effective_age |-> Group(G_Age),
     floor_area |-> Group(G_FloorArea), ground_area |-> Group(G_FloorArea),
     basement_sf |-> Group(G_Basement), total_base_new |-> Group(G_BaseNew),
     total_depr_cost |-> Group(G_BaseNew), estimated_tcv_cost |-> Group(N_85465),
     ecf |-> Group(G_Ecf)]

Page2Samples == {OcrError, Page2Empty, Page2Full}

\* the bytes of an upload: whether pymupdf opens them, and the pages
PdfBytes(valid, pages) == [valid |-> valid, pages |-> pages]

PdfSamples ==
    {PdfBytes(FALSE, <<>>), PdfBytes(TRUE, <<>>)}
    \cup {PdfBytes(TRUE, <<p1>>) : p1 \in Page1Samples}
    \cup {PdfBytes(TRUE, <<p1, p2>>) : p1 \in Page1Samples, p2 \in Page2Samples}

(***************************************************************************)
(* parse_rc_pdf, step by step, and the manual entry form of the sidebar.   *)
(***************************************************************************)
\* uploaded_file.read(); prop = PropertyData()
Upload ==
    /\ parse_pc = "idle"
    /\ \E b \in PdfSamples :
          pdf' = [state |-> "uploaded", valid |-> b.valid, pages |-> b.pages]
    /\ prop' = PropertyData
    /\ parse_pc' = "open"
    /\ UNCHANGED <<aggVars, appealVars>>

\* doc = pymupdf.open(stream=pdf_bytes, filetype="pdf")
OpenDoc ==
    /\ parse_pc = "open"
    /\ IF pdf.valid
       THEN /\ pdf' = [pdf EXCEPT !.state = "open"]
            /\ parse_pc' = "page1"
       ELSE /\ pdf' = pdf
            /\ parse_pc' = "failed"
    /\ UNCHANGED <<prop, aggVars, appealVars>>

\* if len(doc) >= 1: recognise and parse page 1
ReadPage1 ==
    /\ parse_pc = "page1"
    /\ IF Len(pdf.pages) >= 1
       THEN IF pdf.pages[1].ocr = "ok"
            THEN /\ prop' = parse_page1(pdf.pages[1], prop)
                 /\ parse_pc' = "page2"
            ELSE /\ prop' = prop
                 /\ parse_pc' = "failed"
       ELSE /\ prop' = prop
            /\ parse_pc' = "page2"
    /\ UNCHANGED <<pdf, aggVars, appealVars>>

\* if len(doc) >= 2: recognise and parse page 2
ReadPage2 ==
    /\ parse_pc = "page2"
    /\ IF Len(pdf.pages) >= 2
       THEN IF pdf.pages[2].ocr = "ok"
            THEN /\ prop' = parse_page2(pdf.pages[2], prop)
                 /\ parse_pc' = "close"
            ELSE /\ prop' = prop
                 /\ parse_pc' = "failed"
       ELSE /\ prop' = prop
            /\ parse_pc' = "close"
    /\ UNCHANGED <<pdf, aggVars, appealVars>>

\* doc.close()
CloseDoc ==
    /\ parse_pc = "close"
    /\ pdf' = [pdf EXCEPT !.state = "closed"]
    /\ parse_pc' = "fallback"
    /\ UNCHANGED <<prop, aggVars, appealVars>>

\* the fallback and the return
ReturnProp ==
    /\ parse_pc = "fallback"
    /\ prop' = SevFallback(prop)
    /\ parse_pc' = "done"
    /\ UNCHANGED <<pdf, aggVars, appealVars>>

M_Address == <<"4", "5", "6", "7", " ", "a", "s", "h", " ", "d", "r", " ">>

SevChoices == {0, 42500, 42732}

\* history rows of the manual form: a year is listed when its value is set
ManualHistory(sev, m_sev_2025, m_taxable, m_land_value) ==
    (IF m_sev_2025 > 0 THEN <<AssessmentYear(2025, NA, NA, Some(m_sev_2025), NA)>>
     ELSE <<>>)
    \o (IF sev > 0
        THEN <<AssessmentYear(2026,
                              IF m_land_value > 0 THEN Some(m_land_value) ELSE NA,
                              IF m_land_value > 0 /\ sev > m_land_value
                              THEN Some(sev - m_land_value) ELSE NA,
                              Some(sev),
                              IF m_taxable > 0 THEN Some(m_taxable) ELSE NA)>>
        ELSE <<>>)

\* app.py: the PropertyData built from the manual inputs
ManualPropertyData(sev, m_address, area, m_sev_2025, m_taxable, m_land_value) ==
    [PropertyData EXCEPT
        !.address = Upper(Strip(m_address)),
        !.parcel_number = Strip(G_Parcel),
        !.area_code = area,
        !.style = G_Style,
        !.year_built = 1998,
        !.floor_area = 2150,
        !.basement_sf = 1075,
        !.condition = G_Condition,
        !.land_value = m_land_value,
        !.sev_2026 = sev,
        !.tcv_2026 = sev * 2,
        !.assessment_history = ManualHistory(sev, m_sev_2025, m_taxable, m_land_value)]

\* no upload: the manual form; a record is built if an address is given
ManualEntry ==
    /\ parse_pc = "idle"
    /\ \E sev \in SevChoices, m_address \in {<<>>, <<" ">>, M_Address},
          area \in AreaChoices \cup {<<>>}, m_sev_2025 \in {0, 41000},
          m_taxable \in {0, 13794}, m_land_value \in {0, 9600} :
          prop' = IF Strip(m_address) # <<>>
                  THEN ManualPropertyData(sev, m_address, area, m_sev_2025,
                                          m_taxable, m_land_value)
                  ELSE NoProp
    /\ parse_pc' = "manual"
    /\ UNCHANGED <<pdf, aggVars, appealVars>>

\* the lists _get_all_areas can return
AllAreasSamples == {{}, {T_AR4}}

\* app.py after parse_rc_pdf has returned: the record is kept only if its
\* area code is one of the township's, then the area-code selector and the
\* assessed-value input are shown
SidebarInputs ==
    /\ parse_pc = "done"
    /\ \E all_areas \in AllAreasSamples :
          prop' = IF prop.area_code # <<>> /\ prop.area_code \in all_areas
                  THEN prop ELSE NoProp
    /\ parse_pc' = "inputs"
    /\ UNCHANGED <<pdf, aggVars, appealVars>>

\* the script runs again from the top on the next interaction; a run that
\* failed has ended with the error, which main does not catch
Rerun ==
    /\ parse_pc \in {"inputs", "failed", "manual"}
    /\ pdf' = NoPdf
    /\ prop' = NoProp
    /\ parse_pc' = "idle"
    /\ UNCHANGED <<aggVars, appealVars>>

InitParse == AggInit("done") /\ AppealIdle /\ ParseIdle

NextParse ==
    \/ Upload
    \/ OpenDoc
    \/ ReadPage1
    \/ ReadPage2
    \/ CloseDoc
    \/ ReturnProp
    \/ SidebarInputs
    \/ ManualEntry
    \/ Rerun

SpecParse == InitParse /\ [][NextParse]_vars

\* a PropertyData record has been returned by the extractor or built by the
\* manual form
RecordReturned == parse_pc = "done" \/ (parse_pc = "manual" /\ prop # NoProp)

\* C4: in every returned record in which the 2026 true cash value and the
\* 2026 assessed value are both non-zero, the true cash value is exactly
\* twice the assessed value.
C4_TcvIsTwiceSev ==
    (RecordReturned /\ prop.tcv_2026 # 0 /\ prop.sev_2026 # 0)
        => prop.tcv_2026 = 2 * prop.sev_2026

\* page 1 was recognised and its text has no assessment-history row
NoHistoryRow ==
    /\ pdf.state # "none"
    /\ Len(pdf.pages) >= 1
    /\ pdf.pages[1].ocr = "ok"
    /\ FindHistory(normalize_ocr_numbers(pdf.pages[1].text), 1) = <<>>

\* C10: when the text of page 1 has no assessment-history row, the returned
\* record has an empty history and its assessed value is floor(tcv / 2) if a
\* true cash value above zero was found and 0 otherwise; the extraction of
\* such a card fails only if recognising page 2 fails.
C10_MissingHistory ==
    /\ (parse_pc = "done" /\ NoHistoryRow) =>
          /\ prop.assessment_history = <<>>
          /\ prop.tcv_2026 > 0 => 2 * prop.sev_2026 \in {prop.tcv_2026 - 1, prop.tcv_2026}
          /\ prop.tcv_2026 = 0 => prop.sev_2026 = 0
    /\ (parse_pc = "failed" /\ NoHistoryRow)
          => (Len(pdf.pages) >= 2 /\ pdf.pages[2].ocr = "error")

\* a card with an odd true cash value and no history row has been returned
C10_Witness ==
    /\ parse_pc = "done"
    /\ NoHistoryRow
    /\ prop.tcv_2026 = 85465
    /\ prop.sev_2026 = 42732
    /\ prop.assessment_history = <<>>

(***************************************************************************)
(* generate_appeal_summary.  The text is the list L of lines; a line is a  *)
(* tuple of its format string and the values formatted into it.  Money is  *)
(* in whole dollars, a cost factor in thousandths, a percentage in tenths. *)
(* The dash of the short-form header and the multiplication sign of the    *)
(* cost-factor section are written "-" and "x".                            *)
(***************************************************************************)
\* format(x, ",.0f"): x rounded to an integer.  The values of the model are
\* exact in binary floating point wherever they lie on a tie.
Money(x) == RoundHalfEven(x)

\* format(ecf, ".3f") as a number of thousandths
Ecf3(r) == RoundHalfEven(Frac(r, 10))

\* format((1 - ecf) * 100, ".1f") as a number of tenths of a percent
Overval1(r) == RoundHalfEven(Frac(RATIO_ONE - r, 10))

\* format(x, ".1f") as a number of tenths
Tenths(x) == RoundHalfEven(FMul(x, FromInt(10)))

\* dict.get(year)
EcfGet(trend, year) == IF year \in DOMAIN trend THEN trend[year] ELSE NA

\* "if x" on a number that may be None
Truthy(x) == x # NA /\ x[1] # 0

RuleEq == <<"= * 70">>

RuleDash == <<"- * 70">>

Blank == <<"">>

HasProp(p) == p # NoProp

\* prop and prop.address
HasAddress(p) == HasProp(p) /\ p.address # <<>>

\* lines 239-270; ecf_adjusted is None or a non-zero amount
ShortForm(area, subdiv, sev, user_tcv, ecf_2026, ecf_adjusted, stats, p) ==
    <<RuleEq, <<"APPEAL ANALYSIS - NOT RECOMMENDED">>, RuleEq, Blank>>
    \o (IF HasAddress(p) THEN << <<"Property:  {}", p.address>> >> ELSE <<>>)
    \o << <<"Area:      {} ({})", area, subdiv>>,
          <<"Your SEV:  ${:,.0f}  (TCV: ${:,.0f})", sev, user_tcv>>,
          Blank,
          <<"Based on the available evidence, an appeal is NOT recommended">>,
          <<"for this property. The current assessment appears to be at or">>,
          <<"below market value:">>,
          Blank >>
    \o (IF HasSales(stats)
        THEN << <<"  - Median of {} comparable sales: ${:,.0f}", stats.count,
                  Money(stats.median)>>,
                <<"  - Average of {} comparable sales: ${:,.0f}", stats.count,
                  Money(stats.mean)>> >>
        ELSE <<>>)
    \o (IF ecf_adjusted # NA
        THEN << <<"  - ECF-adjusted value (ECF={:.3f}):   ${:,.0f}", Ecf3(ecf_2026[1]),
                  Money(ecf_adjusted[1])>> >>
        ELSE <<>>)
    \o << <<"  - Your current TCV:                      ${:,.0f}", user_tcv>>, Blank >>
    \o (IF HasSales(stats) /\ FLeq(FromInt(user_tcv), stats.median)
        THEN << <<"The median sale price (${:,.0f}) is at or above your",
                  Money(stats.median)>>,
                <<"TCV (${:,.0f}), meaning comparable sales support the current",
                  user_tcv>>,
                <<"assessment. The Board of Review is unlikely to grant a reduction.">> >>
        ELSE IF /\ ecf_adjusted # NA
                /\ FLess(ecf_adjusted[1], FromInt(user_tcv))
                /\ HasSales(stats)
        THEN << <<"While the ECF ({:.3f}) suggests some overvaluation, the median",
                  Ecf3(ecf_2026[1])>>,
                <<"sale price (${:,.0f}) supports the current assessment.",
                  Money(stats.median)>>,
                <<"An ECF-only argument would be aggressive and may not succeed.">> >>
        ELSE <<>>)
    \o <<Blank, RuleEq>>

\* lines 275-278
Header ==
    << <<"PETITION TO THE BOARD OF REVIEW">>,
       <<"Pittsfield Charter Township, Washtenaw County, Michigan">>,
       <<"Tax Year 2026">>,
       Blank >>

\* the details list of lines 297-303
PropertyDetails(p) ==
    (IF p.style # <<>> THEN << <<"{}", p.style>> >> ELSE <<>>)
    \o (IF p.year_built # 0 THEN << <<"Built {}", p.year_built>> >> ELSE <<>>)
    \o (IF p.floor_area # 0 THEN << <<"{:,} SF", p.floor_area>> >> ELSE <<>>)

\* lines 283-306
PropertyInformation(area, subdiv, p) ==
    <<RuleEq, <<"PROPERTY INFORMATION">>, RuleEq>>
    \o (IF HasProp(p) /\ p.parcel_number # <<>>
        THEN << <<"Parcel Number:    {}", p.parcel_number>> >> ELSE <<>>)
    \o (IF HasAddress(p)
        THEN << <<"Property Address: {}, Ypsilanti, MI 48197", p.address>> >> ELSE <<>>)
    \o << <<"Township:         Pittsfield Charter Township">>,
          <<"County:           Washtenaw">>,
          <<"School District:  Ann Arbor Public Schools">>,
          <<"Classification:   Residential (401)">>,
          <<"ECF Area:         {} ({})", area, subdiv>> >>
    \o (IF HasProp(p) /\ PropertyDetails(p) # <<>>
        THEN << <<"Property:         {', '.join(details)}", PropertyDetails(p)>> >>
        ELSE <<>>)
    \o <<Blank>>

\* lines 320-324: the taxable value of the first 2026 row of the history
TaxableOf(p) ==
    IF ~HasProp(p) THEN NA
    ELSE LET at == {i \in 1..Len(p.assessment_history) :
                       p.assessment_history[i].year = 2026}
         IN  IF at = {} THEN NA
             ELSE p.assessment_history[CHOOSE i \in at : \A j \in at : i <= j].taxable_value

\* lines 311-327
AssessmentValues(sev, user_tcv, rec_sev, p) ==
    <<RuleEq, <<"ASSESSMENT VALUES">>, RuleEq,
      <<"{:30s} Current 2026  Petitioner  Difference">>,
      <<"{'-' * 30} {'-' * 14}  {'-' * 14}  {'-' * 14}">>,
      <<"Assessed Value (SEV) ${:>13,.0f}  ${:>13,.0f}  ${:>+13,.0f}",
        sev, rec_sev, rec_sev - sev>>,
      <<"True Cash Value (TCV) ${:>13,.0f}  ${:>13,.0f}  ${:>+13,.0f}",
        user_tcv, rec_sev * 2, rec_sev * 2 - user_tcv>> >>
    \o (IF Truthy(TaxableOf(p))
        THEN << <<"Taxable Value ${:>13,.0f}  ${:>13,.0f}  $0", TaxableOf(p)[1],
                  TaxableOf(p)[1]>> >>
        ELSE <<>>)
    \o <<Blank>>

\* lines 332-342
GroundsForAppeal(area, subdiv, sev, user_tcv, rec_sev) ==
    <<RuleEq, <<"GROUNDS FOR APPEAL">>, RuleEq,
      <<"The petitioner contends that the 2026 assessed value of ${:,.0f}", sev>>,
      <<"(implying a True Cash Value of ${:,.0f}) exceeds the usual selling", user_tcv>>,
      <<"price for comparable properties in the {} subdivision ({})", subdiv, area>>,
      <<"and surrounding area. The petitioner requests a reduction to an assessed">>,
      <<"value of ${:,.0f} (TCV of ${:,.0f}), supported by the following",
        rec_sev, rec_sev * 2>>,
      <<"evidence from the township's own records and market data.">>,
      Blank >>

\* lines 362-368: one line per year of the trend, in year order
EcfTrendLines(trend) ==
    LET years == SortedInts(DOMAIN trend)
    IN  [i \in 1..Len(years) |->
            IF trend[years[i]] # NA
            THEN <<"  - {} ECF: {:.3f} (cost exceeds market by {:.1f}%)", years[i],
                   Ecf3(trend[years[i]][1]), Overval1(trend[years[i]][1])>>
            ELSE <<"  - {} ECF: Not available (area not in study)", years[i]>>]

\* lines 349-383; ecf_2026 is not None.  Line 376 formats ecf_adjusted, which
\* is None when ecf_2026 is 0.0: the caller turns that into the TypeError.
EcfEvidence(area, user_tcv, trend, ecf_2026, ecf_adjusted, evidence_num) ==
    <<RuleDash,
      IF ecf_2026[1] < RATIO_ONE
      THEN <<"EVIDENCE {}: TOWNSHIP ECF DATA CONFIRMS OVER-ASSESSMENT", evidence_num>>
      ELSE <<"EVIDENCE {}: TOWNSHIP ECF DATA ANALYSIS", evidence_num>>,
      RuleDash>>
    \o (IF ecf_2026[1] < RATIO_ONE
        THEN << <<"The township's own Economic Condition Factor (ECF) for {} is", area>>,
                <<"{:.3f} (2026), meaning the cost-approach valuations used by the",
                  Ecf3(ecf_2026[1])>>,
                <<"assessor EXCEED actual market sale prices by approximately {:.1f}%.",
                  Overval1(ecf_2026[1])>>,
                <<"This has been consistent across available assessment years:">>,
                Blank >>
             \o EcfTrendLines(trend)
             \o << Blank,
                   <<"The ECF is calculated from the township's own analysis of actual arm's-">>,
                   <<"length sales compared to cost-approach values, confirming a systematic">>,
                   <<"pattern of over-assessment in this subdivision.">>,
                   Blank,
                   <<"Applying the ECF to the current assessment:">>,
                   <<"  TCV x ECF = ECF-Adjusted TCV">>,
                   <<"  ${:,.0f} x {:.3f} = ${:,.0f}", user_tcv, Ecf3(ecf_2026[1]),
                     Money(ecf_adjusted[1])>>,
                   <<"  Implied over-assessment: ${:,.0f}",
                     Money(FSub(FromInt(user_tcv), ecf_adjusted[1]))>> >>
        ELSE << <<"The ECF for {} is {:.3f} (at or above 1.0), indicating", area,
                  Ecf3(ecf_2026[1])>>,
                <<"the cost approach does not systematically overvalue properties in this">>,
                <<"area based on the township's own analysis.">> >>)
    \o <<Blank>>

\* (count, below) for which int(count * (below / count * 100) / 100) falls one
\* short of below in double precision, for count up to 6
FloatShort == {<<3, 1>>, <<3, 2>>, <<6, 1>>, <<6, 2>>, <<6, 4>>}

\* int(count * sales_stats["pct_below_tcv"] / 100)
BelowCount(stats) ==
    IF <<stats.count, stats.below>> \in FloatShort THEN stats.below - 1 ELSE stats.below

\* lines 409-416: the factor recorded last for the address and the year, in
\* thousandths as it is formatted, or NA for the dash
EcfLookup(props, addr_key, year) ==
    LET at == {i \in 1..Len(props) :
                  /\ Upper(Strip(props[i].address)) = addr_key
                  /\ props[i].year = year
                  /\ props[i].ecf # NA}
    IN  IF at = {} THEN NA
        ELSE Some(Ecf3(props[CHOOSE i \in at : \A j \in at : j <= i].ecf[1]))

\* s[:n]
Prefix(s, n) == SubSeq(s, 1, IF Len(s) < n THEN Len(s) ELSE n)

\* lines 422-436: one line per sale that has a price
SalesTableLines(df, user_tcv, props) ==
    LET priced == SelectSeq(df, LAMBDA row : RowGet(row, "Adj_Sale") # NA)
    IN  [i \in 1..Len(priced) |->
            LET addr == RowText(priced[i], "Street_Address")
                price == priced[i]["Adj_Sale"][1]
            IN  <<"  {:<28s} ${:>11,.0f} {:>12s} {:>12s} {:>7s} {:>7s} {:>7s}",
                  Prefix(addr, 28), price,
                  Prefix(RowText(priced[i], "Sale_Date"), 12),
                  price - user_tcv,
                  EcfLookup(props, Upper(addr), 2026),
                  EcfLookup(props, Upper(addr), 2025),
                  EcfLookup(props, Upper(addr), 2024)>>]

\* lines 388-453; the count of sales is positive
SalesEvidence(area, user_tcv, stats, props, df, evidence_num) ==
    LET above == FLess(FromInt(0), stats.delta_from_median)
    IN  <<RuleDash, <<"EVIDENCE {}: COMPARABLE SALES ANALYSIS", evidence_num>>, RuleDash>>
        \o (IF above
            THEN << <<"The assessed TCV of ${:,.0f} exceeds the median sale price of",
                      user_tcv>>,
                    <<"comparable arm's-length sales in {}. Of {} comparable sales", area,
                      stats.count>>,
                    <<"identified across the 2024-2026 assessment data, {} ({:.0f}%)",
                      BelowCount(stats), RoundHalfEven(stats.pct_below_tcv)>>,
                    <<"sold BELOW the assessed TCV.">> >>
            ELSE << <<"Analysis of {} arm's-length sales in {} from the 2024-2026",
                      stats.count, area>>,
                    <<"assessment data:">> >>)
        \o <<Blank>>
        \o (IF df # <<>>
            THEN << <<"  Address  Sale Price  Date  vs TCV  ECF 26  ECF 25  ECF 24">>,
                    <<"  {'-' * 28} {'-' * 12} {'-' * 12} {'-' * 12} {'-' * 7} {'-' * 7} {'-' * 7}">> >>
                 \o SalesTableLines(df, user_tcv, props)
                 \o <<Blank>>
            ELSE <<>>)
        \o << <<"  Summary Statistics:">>,
              <<"  - Number of sales:       {}", stats.count>>,
              <<"  - Median sale price:     ${:,.0f}", Money(stats.median)>>,
              <<"  - Average sale price:    ${:,.0f}", Money(stats.mean)>>,
              <<"  - Price range:           ${:,.0f} - ${:,.0f}", Money(stats.min),
                Money(stats.max)>> >>
        \o (IF above
            THEN << <<"  - Your TCV vs median:    +${:,.0f} ({:.1f}% above)",
                      Money(stats.delta_from_median), Tenths(stats.delta_pct)>>,
                    <<"  - Sales below your TCV:  {} of {} ({:.0f}%)", BelowCount(stats),
                      stats.count, RoundHalfEven(stats.pct_below_tcv)>> >>
            ELSE <<>>)
        \o <<Blank>>
        \o (IF above
            THEN << <<"The average sale price of ${:,.0f} is ${:,.0f} below the",
                      Money(stats.mean), Money(FSub(FromInt(user_tcv), stats.mean))>>,
                    <<"assessed TCV of ${:,.0f}.", user_tcv>> >>
            ELSE <<>>)
        \o <<Blank>>

\* a land value, kept doubled in the trend rows, as an amount
LandAmount(x2) == Frac(x2[1], 2)

\* lines 475-480: the line of one trend row, if it has one
LandTrendLine(lt) ==
    IF lt.adjust_factor # NA
    THEN << <<"  - {} Land Value: {} (Adjustment Factor: {:.4f}, {:+.1f}%)", lt.year,
              IF Truthy(lt.current_lv_x2) THEN Some(Money(LandAmount(lt.current_lv_x2)))
              ELSE NA,
              lt.adjust_factor[1],
              RoundHalfEven(Frac(lt.adjust_factor[1] - RATIO_ONE, 10))>> >>
    ELSE IF Truthy(lt.current_lv_x2)
    THEN << <<"  - {} Land Value: ${:,.0f}", lt.year, Money(LandAmount(lt.current_lv_x2))>> >>
    ELSE <<>>

RECURSIVE LandTrendLines(_)
LandTrendLines(lands) ==
    IF lands = <<>> THEN <<>>
    ELSE LandTrendLine(Head(lands)) \o LandTrendLines(Tail(lands))

\* first_lv: the prior value of the first row that has one
FirstLv(lands) ==
    LET at == {i \in 1..Len(lands) : Truthy(lands[i].prior_lv_x2)}
    IN  IF at = {} THEN NA
        ELSE lands[CHOOSE i \in at : \A j \in at : i <= j].prior_lv_x2

\* last_lv: the current value of the last row that has one
LastLv(lands) ==
    LET at == {i \in 1..Len(lands) : Truthy(lands[i].current_lv_x2)}
    IN  IF at = {} THEN NA
        ELSE lands[CHOOSE i \in at : \A j \in at : j <= i].current_lv_x2

\* lines 458-493; land_trends is not empty
LandEvidence(area, lands, ecf_2026, evidence_num) ==
    <<RuleDash, <<"EVIDENCE {}: LAND VALUE TREND", evidence_num>>, RuleDash,
      <<"The {} land values have changed as follows over 3 years:", area>>,
      Blank>>
    \o LandTrendLines(lands)
    \o (IF FirstLv(lands) # NA /\ LastLv(lands) # NA /\ FirstLv(lands)[1] > 0
        THEN << Blank,
                <<"  Total land value change: ${:,.0f} -> ${:,.0f} ({:+.1f}%)",
                  Money(LandAmount(FirstLv(lands))), Money(LandAmount(LastLv(lands))),
                  Tenths(FMul(Frac(LastLv(lands)[1] - FirstLv(lands)[1],
                                   FirstLv(lands)[1]),
                              FromInt(100)))>> >>
        ELSE <<>>)
    \o (IF Truthy(ecf_2026) /\ ecf_2026[1] < RATIO_ONE
        THEN << Blank,
                <<"  While land values have increased, the ECF data shows that building">>,
                <<"  cost valuations consistently exceed market. The combined effect">>,
                <<"  produces assessments that overstate actual market conditions.">> >>
        ELSE <<>>)
    \o <<Blank>>

\* lines 503-509: the arguments list
Arguments(area, ecf_2026, stats) ==
    (IF Truthy(ecf_2026) /\ ecf_2026[1] < RATIO_ONE
     THEN << <<"the township's own ECF analysis confirming systematic over-assessment in {} (ECF = {:.3f})",
               area, Ecf3(ecf_2026[1])>> >>
     ELSE <<>>)
    \o (IF HasSales(stats) /\ FLess(FromInt(0), stats.delta_from_median)
        THEN << <<"comparable sales evidence showing a median price of ${:,.0f} and an average of ${:,.0f}",
                  Money(stats.median), Money(stats.mean)>> >>
        ELSE <<>>)

\* lines 498-525
Conclusion(area, sev, rec_sev, ecf_2026, ecf_adjusted, stats) ==
    <<RuleEq, <<"CONCLUSION AND REQUESTED RELIEF">>, RuleEq,
      IF Arguments(area, ecf_2026, stats) # <<>>
      THEN <<"Based on {', '.join(arguments)},", Arguments(area, ecf_2026, stats)>>
      ELSE <<"Based on the evidence presented above,">>,
      <<"the petitioner respectfully requests that the Board of Review reduce the">>,
      <<"2026 assessed value from ${:,.0f} to ${:,.0f}, reflecting a", sev, rec_sev>>,
      <<"True Cash Value of ${:,.0f}.", rec_sev * 2>>,
      Blank,
      <<"This value is consistent with:">> >>
    \o (IF HasSales(stats)
        THEN << <<"  - The average of {} comparable arm's-length sales (${:,.0f})",
                  stats.count, Money(stats.mean)>> >>
        ELSE <<>>)
    \o (IF ecf_adjusted # NA
        THEN << <<"  - The township's own ECF-adjusted cost approach (${:,.0f})",
                  Money(ecf_adjusted[1])>> >>
        ELSE <<>>)
    \o << <<"  - The sales-comparison approach, which is the most persuasive valuation">>,
          <<"    method for residential property under Michigan law">>,
          <<"    (Meadowlanes Ltd v Holland, 437 Mich 473)">>,
          Blank >>

\* lines 528-536
LegalBasis ==
    <<RuleDash, <<"LEGAL BASIS">>, RuleDash,
      <<"Under MCL 211.27(1), true cash value means the usual selling price.">>,
      <<"There is no presumption of validity for the assessor's value">>,
      <<"(Alhi Development Co v Orion Twp, 110 Mich App 764, 1981).">>,
      <<"The sales-comparison approach is the most persuasive valuation method">>,
      <<"for residential property (Meadowlanes Ltd v Holland, 437 Mich 473).">>,
      Blank>>

\* lines 541-555
Petitioner(p) ==
    <<RuleEq, <<"PETITIONER">>, RuleEq, Blank,
      <<"Signature: ____________________________    Date: ___/___/2026">>,
      Blank,
      <<"Printed Name: _________________________">>,
      IF HasAddress(p) THEN <<"Address: {}, Ypsilanti, MI 48197", p.address>>
      ELSE <<"Address: _____________________________">>,
      <<"Phone: ________________________________">>,
      <<"Email: ________________________________">>,
      Blank>>

\* lines 558-569
Footer ==
    <<RuleDash,
      <<"Note: This petition is submitted pursuant to MCL 211.30 and the General">>,
      <<"Property Tax Act. The petitioner requests that the Board of Review">>,
      <<"consider this written petition in lieu of a personal appearance, per">>,
      <<"MCL 211.30(4).">>,
      Blank,
      <<"Data source: Pittsfield Township official assessment documents (2024-2026)">>,
      <<"Available at: pittsfield-mi.gov/2230/Property-Assessment-Data">>,
      Blank,
      <<"APPEAL DEADLINE: March 10, 2026 at 5:00 PM">>,
      <<"Location: 6201 W. Michigan Ave, Ann Arbor, MI 48108">>,
      <<"Phone: 734-822-3115 | Email: assessing@pittsfield-mi.gov">> >>

\* lines 275-571; ecf_adjusted is not None where line 376 formats it
LongForm(area, subdiv, sev, user_tcv, rec_sev, trend, ecf_2026, ecf_adjusted, stats, lands, props, df, p) ==
    LET n_sales == 1 + (IF ecf_2026 # NA THEN 1 ELSE 0)
        n_land == n_sales + (IF HasSales(stats) THEN 1 ELSE 0)
    IN  Header
        \o PropertyInformation(area, subdiv, p)
        \o AssessmentValues(sev, user_tcv, rec_sev, p)
        \o GroundsForAppeal(area, subdiv, sev, user_tcv, rec_sev)
        \o (IF ecf_2026 # NA
            THEN EcfEvidence(area, user_tcv, trend, ecf_2026, ecf_adjusted, 1) ELSE <<>>)
        \o (IF HasSales(stats)
            THEN SalesEvidence(area, user_tcv, stats, props, df, n_sales) ELSE <<>>)
        \o (IF lands # <<>> THEN LandEvidence(area, lands, ecf_2026, n_land) ELSE <<>>)
        \o Conclusion(area, sev, rec_sev, ecf_2026, ecf_adjusted, stats)
        \o LegalBasis
        \o Petitioner(p)
        \o Footer

\* The petition text together with the locals of lines 228-235.  The
\* coverage argument is not read anywhere in the function.
generate_appeal_summary(area, subdiv, sev, trend, stats, lands, cov, props, df, p) ==
    LET user_tcv == sev * 2
        ecf_2026 == EcfGet(trend, 2026)
        ecf_adjusted == IF Truthy(ecf_2026) /\ ecf_2026[1] < RATIO_ONE
                        THEN Some(FMul(FromInt(user_tcv), FromRatio(ecf_2026[1])))
                        ELSE NA
        rec == compute_recommended_values(ecf_2026, user_tcv, stats)
        rec_sev == RoundToNearest5000(rec[1])
        no_appeal == rec_sev >= sev
        locals == [rec_low |-> rec[1], rec_high |-> rec[2], rec_sev |-> rec_sev,
                   no_appeal |-> no_appeal]
    IN  IF no_appeal
        THEN locals @@ [status |-> "ok",
                        text |-> ShortForm(area, subdiv, sev, user_tcv, ecf_2026,
                                           ecf_adjusted, stats, p)]
        ELSE IF ecf_2026 # NA /\ ecf_2026[1] < RATIO_ONE /\ ecf_adjusted = NA
        THEN locals @@ [status |-> "TypeError", text |-> <<>>]
        ELSE locals @@ [status |-> "ok",
                        text |-> LongForm(area, subdiv, sev, user_tcv, rec_sev, trend,
                                          ecf_2026, ecf_adjusted, stats, lands, props,
                                          df, p)]

(***************************************************************************)
(* One computation pass of the session (app.py, lines 280-294 and the      *)
(* petition tab): the views of the aggregator are given, the statistics    *)
(* are computed from them and the petition is composed.                    *)
(***************************************************************************)
\* number of comparable sales in a pass
MaxComparables == 3

\* the assessed values entered; the pass runs only when sev > 0
AppealSevChoices == {200000, 202000}

ComparableRow(parcel, addr, date, price, year) ==
    [Parcel_Number |-> parcel, Street_Address |-> addr, Sale_Date |-> date,
     Sale_Price |-> Some(price), Adj_Sale |-> Some(price), _year |-> year]

T_L3 == <<"L", "-", "3">>

T_L4 == <<"L", "-", "4">>

T_L5 == <<"L", "-", "5">>

ComparableSamples ==
    { ComparableRow(T_L1, <<"1", " ", "A">>, <<"0", "9", "/", "0", "1", "/", "2", "0", "2", "4">>,
                    416000, 2026),
      ComparableRow(T_L2, <<"2", " ", "A">>, <<"0", "7", "/", "0", "1", "/", "2", "0", "2", "4">>,
                    410000, 2026),
      ComparableRow(T_L3, <<"3", " ", "A">>, <<"0", "5", "/", "2", "5", "/", "2", "0", "2", "3">>,
                    404000, 2025),
      ComparableRow(T_L4, <<"4", " ", "A">>, <<"0", "3", "/", "0", "1", "/", "2", "0", "2", "2">>,
                    300000, 2024),
      ComparableRow(T_L5, <<"5", " ", "A">>, <<"0", "1", "/", "1", "5", "/", "2", "0", "2", "2">>,
                    345000, 2024) }

\* the tables get_comparable_sales can return: sorted by the text of the
\* sale date, descending, one row per sale
ComparableFrames ==
    {df \in SeqsUpTo(ComparableSamples, MaxComparables) :
        \A i \in 1..(Len(df) - 1) : StrLess(df[i + 1]["Sale_Date"], df[i]["Sale_Date"])}

\* the mappings get_ecf_trend can return
EcfTrendSamples ==
    { <<>>,
      (2024 :> Some(8700)) @@ (2025 :> NA) @@ (2026 :> Some(8500)),
      (2024 :> Some(8700)) @@ (2025 :> Some(8600)) @@ (2026 :> NA),
      (2025 :> Some(8600)) @@ (2026 :> Some(0)),
      (2026 :> Some(10)),
      (2026 :> Some(10000)),
      (2024 :> NA) @@ (2026 :> Some(11000)) }

\* the lists get_ecf_properties can return
EcfPropsSamples ==
    { <<>>,
      << [year |-> 2026, address |-> <<"1", " ", "a">>, parcel |-> T_L1,
          sale_price |-> Some(416000), cost_man |-> Some(480000), ecf |-> Some(8667)] >> }

\* the lists get_land_value_trends can return
LandTrendSamples ==
    { <<>>,
      << [year |-> 2025, adjust_factor |-> Some(10500), prior_lv_x2 |-> Some(100000),
          current_lv_x2 |-> Some(120000)] >>,
      << [year |-> 2025, adjust_factor |-> NA, prior_lv_x2 |-> NA,
          current_lv_x2 |-> Some(120000)],
         [year |-> 2026, adjust_factor |-> Some(9500), prior_lv_x2 |-> Some(120000),
          current_lv_x2 |-> NA] >> }

CoverageDropped == (2024 :> 5) @@ (2025 :> 3) @@ (2026 :> 0)

CoverageFull == (2024 :> 5) @@ (2025 :> 3) @@ (2026 :> 2)

CoverageSamples == {CoverageDropped, CoverageFull}

\* the views of one pass, for the selected area
InitAppeal ==
    /\ data = EmptyData
    /\ load_pc = LoadPc("done", 1, 0)
    /\ area_code = T_AR4
    /\ views = [v \in ViewNames |-> NotRun]
    /\ summary_csv = <<>>
    /\ user_sev \in AppealSevChoices
    /\ subdivision = T_MDW
    /\ ecf_trend \in EcfTrendSamples
    /\ ecf_props \in EcfPropsSamples
    /\ sales_df \in ComparableFrames
    /\ land_trends \in LandTrendSamples
    /\ coverage \in CoverageSamples
    /\ sales_stats = NotRun
    /\ banner = NotRun
    /\ summary = NotRun
    /\ appeal_pc = "inputs"
    /\ pdf = NoPdf
    /\ \E manual \in BOOLEAN :
          IF manual
          THEN /\ prop = ManualPropertyData(user_sev, M_Address, area_code, 0, 180000, 0)
               /\ parse_pc = "manual"
          ELSE /\ prop = NoProp
               /\ parse_pc = "idle"

\* sales_stats = compute_sales_stats(sales_df, user_tcv)
ComputeSalesStats ==
    /\ appeal_pc = "inputs"
    /\ sales_stats' = compute_sales_stats(sales_df, user_sev * 2)
    /\ appeal_pc' = "stats"
    /\ UNCHANGED <<user_sev, subdivision, ecf_trend, ecf_props, sales_df, land_trends,
                   coverage, banner, summary>>
    /\ UNCHANGED <<aggVars, parseVars>>

\* the petition tab: the call of generate_appeal_summary
GenerateAppealSummary ==
    /\ appeal_pc = "stats"
    /\ summary' = generate_appeal_summary(area_code, subdivision, user_sev, ecf_trend,
                                          sales_stats, land_trends, coverage, ecf_props,
                                          sales_df, prop)
    /\ appeal_pc' = "done"
    /\ UNCHANGED <<user_sev, subdivision, ecf_trend, ecf_props, sales_df, land_trends,
                   coverage, banner, sales_stats>>
    /\ UNCHANGED <<aggVars, parseVars>>

NextAppeal ==
    \/ ComputeSalesStats
    \/ GenerateAppealSummary

SpecAppeal == InitAppeal /\ [][NextAppeal]_vars

(***************************************************************************)
(* The computation pass as main runs it (app.py, lines 292-342 and the     *)
(* Appeal Summary tab, lines 553-572): statistics, recommended values and  *)
(* verdict banner, then the tab with the composed text.  An error that     *)
(* main does not catch ends the run.                                       *)
(***************************************************************************)
\* sales_stats['median']: the key is there unless the sales set was empty
HasMedian(stats) == "median" \in DOMAIN stats

\* lines 307-342: the recommended values, the verdict and the banner
VerdictBannerOf(sev, trend, stats) ==
    LET user_tcv == sev * 2
        rec == compute_recommended_values(EcfGet(trend, 2026), user_tcv, stats)
        rec_sev == RoundToNearest5000(rec[1])
        no_appeal == rec_sev >= sev
    IN  [rec_low |-> rec[1], rec_high |-> rec[2],
         rec_sev |-> rec_sev, rec_tcv |-> rec_sev * 2, no_appeal |-> no_appeal,
         status |-> IF no_appeal /\ ~HasMedian(stats) THEN "KeyError" ELSE "ok",
         tab |-> "not_run"]

VerdictBanner ==
    /\ appeal_pc = "stats"
    /\ banner' = VerdictBannerOf(user_sev, ecf_trend, sales_stats)
    /\ appeal_pc' = IF banner'.status = "ok" THEN "banner" ELSE "aborted"
    /\ UNCHANGED <<user_sev, subdivision, ecf_trend, ecf_props, sales_df, land_trends,
                   coverage, sales_stats, summary>>
    /\ UNCHANGED <<aggVars, parseVars>>

\* lines 553-572: the text is composed, then the tab shows the verdict
AppealSummaryTab ==
    /\ appeal_pc = "banner"
    /\ summary' = generate_appeal_summary(area_code, subdivision, user_sev, ecf_trend,
                                          sales_stats, land_trends, coverage, ecf_props,
                                          sales_df, prop)
    /\ banner' = [banner EXCEPT !.tab =
                     IF summary'.status # "ok" THEN summary'.status
                     ELSE IF banner.no_appeal /\ ~HasMedian(sales_stats) THEN "KeyError"
                     ELSE "ok"]
    /\ appeal_pc' = IF banner'.tab = "ok" THEN "done" ELSE "aborted"
    /\ UNCHANGED <<user_sev, subdivision, ecf_trend, ecf_props, sales_df, land_trends,
                   coverage, sales_stats>>
    /\ UNCHANGED <<aggVars, parseVars>>

NextPass ==
    \/ ComputeSalesStats
    \/ VerdictBanner
    \/ AppealSummaryTab

SpecPass == InitAppeal /\ [][NextPass]_vars

\* the short-form narrative was returned
IsShortForm(s) ==
    /\ s.status = "ok"
    /\ s.text[2] = <<"APPEAL ANALYSIS - NOT RECOMMENDED">>

\* the long-form petition was returned
IsLongForm(s) ==
    /\ s.status = "ok"
    /\ s.text[1] = <<"PETITION TO THE BOARD OF REVIEW">>

\* C5: the composer gives the verdict "appeal not recommended" if and only
\* if the primary recommended true cash value, halved and rounded to the
\* nearest 5,000, is at least the current assessed value; whenever that
\* rounded value is below the current assessed value the long-form petition
\* is produced.
C5_VerdictRule ==
    appeal_pc = "done" =>
        LET rec_low == Primary(EcfGet(ecf_trend, 2026), user_sev * 2, sales_stats)
            half5000 == Frac(rec_low[1], rec_low[2] * 10000)
            rec_sev == 5000 * RoundHalfEven(half5000)
        IN  /\ IsShortForm(summary) <=> rec_sev >= user_sev
            /\ rec_sev < user_sev => IsLongForm(summary)

\* the case of C6: cost factor 0.85 for 2026, assessed value 200,000, no
\* comparable sales
C6_Case ==
    /\ appeal_pc = "done"
    /\ user_sev = 200000
    /\ EcfGet(ecf_trend, 2026) = Some(8500)
    /\ sales_df = <<>>

\* C6: with a 2026 cost factor of 0.85, an assessed value of 200,000 and no
\* comparable sales, the recommended true cash value is 340,000, the
\* recommended assessed value is 170,000, and the long-form petition, which
\* requests these values, is produced.
C6_AppealGate ==
    C6_Case =>
        /\ summary.rec_low = FromInt(340000)
        /\ summary.rec_sev = 170000
        /\ ~summary.no_appeal
        /\ IsLongForm(summary)
        /\ \E i \in 1..Len(summary.text) :
              summary.text[i] = <<"Assessed Value (SEV) ${:>13,.0f}  ${:>13,.0f}  ${:>+13,.0f}",
                                  200000, 170000, 0 - 30000>>
        /\ \E i \in 1..Len(summary.text) :
              summary.text[i] = <<"True Cash Value (TCV) ${:>13,.0f}  ${:>13,.0f}  ${:>+13,.0f}",
                                  400000, 340000, 0 - 60000>>

\* the petition of the case of C6 has been composed
C6_Witness == C6_Case /\ IsLongForm(summary) /\ summary.rec_sev = 170000

\* the case of C7: the median of the comparable sales is 410,000 and the
\* assessed value is 200,000
C7_Case ==
    /\ appeal_pc = "done"
    /\ user_sev = 200000
    /\ sales_stats.count > 0
    /\ sales_stats.median = FromInt(410000)

\* C7: with a comparable-sales median of 410,000 and an assessed value of
\* 200,000 (true cash value 400,000), whatever the cost-factor trend, the
\* verdict is "not recommended" and the short-form narrative is returned,
\* not the petition.
C7_NoAppeal ==
    C7_Case =>
        /\ summary.no_appeal
        /\ IsShortForm(summary)
        /\ ~IsLongForm(summary)
        /\ \A i \in 1..Len(summary.text) :
              summary.text[i] # <<"PETITION TO THE BOARD OF REVIEW">>

\* the short form of the case of C7 has been returned although the 2026
\* cost factor is below 1.0
C7_Witness ==
    /\ C7_Case
    /\ EcfGet(ecf_trend, 2026) = Some(8500)
    /\ IsShortForm(summary)

\* a line of the text says that the year is not in the study
FlagsYearDropped(text, year) ==
    \E i \in 1..Len(text) :
        text[i] = <<"  - {} ECF: Not available (area not in study)", year>>

\* C8: when the coverage passed to the composer is {2024: 5, 2025: 3,
\* 2026: 0}, the text flags 2026 as dropped from the study, and the text
\* differs from the one composed for a coverage with sales in 2026.
C8_CoverageDropFlagged ==
    (appeal_pc = "done" /\ summary.status = "ok" /\ coverage = CoverageDropped) =>
        /\ FlagsYearDropped(summary.text, 2026)
        /\ summary.text #
              generate_appeal_summary(area_code, subdivision, user_sev, ecf_trend,
                                      sales_stats, land_trends, CoverageFull, ecf_props,
                                      sales_df, prop).text

(***************************************************************************)
(* Further claims on the comparable-sales set (Spec).                      *)
(***************************************************************************)
\* the loaded sales rows, as <<year, row>> pairs
LoadedSalesRows ==
    UNION {{<<y, data.sales[y].rows[i]>> : i \in 1..Len(data.sales[y].rows)} :
              y \in DOMAIN data.sales}

\* C11: every row of the comparable-sales output is a loaded row whose
\* table has a terms-of-sale column and whose terms of sale contain "ARM"
\* in any letter case; rows with missing terms and rows of tables without
\* the column are never returned.
C11_ArmsLengthOnly ==
    ComparableSalesReturned =>
        \A i \in 1..Len(SalesOut) :
            \E p \in LoadedSalesRows :
                /\ ComparableCols \subseteq DOMAIN p[2]
                /\ Restrict(p[2], ComparableCols) = SalesOut[i]
                /\ "Terms_of_Sale" \in DOMAIN p[2]
                /\ IsArmsLength(p[2]["Terms_of_Sale"])

\* the qualifying rows that carry the same sale as r
Colliding(r) == {q \in QualifyingInput : SameSale(q[2], r)}

\* the latest study year among a set of <<year, row>> pairs
LatestYear(S) == CHOOSE y \in {q[1] : q \in S} : \A q \in S : q[1] <= y

\* C12: when qualifying rows collide on the trimmed parcel number and the
\* calendar sale date, the row returned for that sale is one of the latest
\* year's table among them: its study year, address and prices are those
\* of that table's row.
C12_LaterYearWins ==
    ComparableSalesReturned =>
        \A p \in QualifyingInput :
            HasParcelAndDate(p[2]) =>
                \A i \in 1..Len(SalesOut) :
                    SameSale(SalesOut[i], p[2]) =>
                        /\ SalesOut[i]["_year"] = LatestYear(Colliding(p[2]))
                        /\ \E q \in Colliding(p[2]) :
                              /\ q[1] = LatestYear(Colliding(p[2]))
                              /\ Restrict(q[2], ComparableCols) = SalesOut[i]

\* two qualifying rows of different years carry the same sale at different
\* prices, and the row returned is the one of the later year
C12_Witness ==
    /\ ComparableSalesReturned
    /\ \E p \in QualifyingInput : \E q \in QualifyingInput :
          /\ p[1] < q[1]
          /\ SameSale(p[2], q[2])
          /\ p[2]["Adj_Sale"] # q[2]["Adj_Sale"]
          /\ \E i \in 1..Len(SalesOut) : SalesOut[i] = Restrict(q[2], ComparableCols)

(***************************************************************************)
(* Claim on the area codes of the loaded tables (SpecEcf).                 *)
(***************************************************************************)
\* the area-code columns the aggregator matches on, per kind of table
AreaColumns ==
    [sales |-> {"ECF_Area"}, ecf_analysis |-> {"ECF_Area_Code", "ECF_Area"},
     ecf_summaries |-> {"ECF_Area"}, land |-> {"Area_Code", "ECF_Area"},
     land_adj |-> {"Area_Code"}]

\* no blank at either end and no apostrophe in front
IsNormalizedArea(s) ==
    \/ s = NaNStr
    \/ s = <<>>
    \/ Head(s) \notin Whitespace \cup {"'"} /\ s[Len(s)] \notin Whitespace

\* C13: every area code stored in a loaded table, in every area-code column
\* the aggregator matches on, has no blank at either end and no apostrophe
\* in front, and normalising it again leaves it unchanged.
C13_AreaCodesNormalized ==
    \A kind \in DOMAIN AreaColumns : \A y \in DOMAIN data[kind] :
        \A i \in 1..Len(data[kind][y].rows) :
            \A c \in AreaColumns[kind] \cap data[kind][y].cols :
                /\ IsNormalizedArea(data[kind][y].rows[i][c])
                /\ NormalizeArea(data[kind][y].rows[i][c]) = data[kind][y].rows[i][c]

(***************************************************************************)
(* Claims on the document handle and on a failed open (SpecParse).         *)
(***************************************************************************)
\* parse_rc_pdf has ended, by its return or by an error
ParseEnded == parse_pc \in {"done", "inputs", "failed"}

\* C14: whenever parse_rc_pdf has ended after the document was opened, by
\* its return or by an error raised while a page was rendered, recognised
\* or parsed, the document handle has been closed.
C14_HandleClosed ==
    (ParseEnded /\ pdf.state # "none" /\ pdf.valid) => pdf.state = "closed"

\* C15: a run in which the upload cannot be opened does not end with the
\* error: it goes on, without a record, to the area-code selector and the
\* assessed-value input.
C15_OpenFailureDegrades ==
    ~(parse_pc = "failed" /\ pdf.state = "uploaded" /\ ~pdf.valid)

(***************************************************************************)
(* Claims on one computation pass of the session (SpecPass).               *)
(***************************************************************************)
\* C16: when the comparable-sales set is empty the statistics are the
\* record with a count of 0 and no other field, and neither the verdict
\* banner nor the Appeal Summary tab nor the composer ends by reading a
\* statistic that is not there.
C16_EmptySalesDegrade ==
    (sales_df = <<>> /\ sales_stats # NotRun) =>
        /\ sales_stats = [count |-> 0]
        /\ banner # NotRun => banner.status # "KeyError" /\ banner.tab # "KeyError"
        /\ summary # NotRun => summary.status # "KeyError"

\* C17: a recognised column that a yearly sales table does not have is
\* treated as missing data: get_comparable_sales returns for every loaded
\* dataset and area, whichever of its columns a yearly table lacks.
C17_AbsentColumnTolerated ==
    views["comparable_sales"] # NotRun => views["comparable_sales"].status = "ok"

(***************************************************************************)
(* Claims on the recommended values (SpecAppeal).                          *)
(***************************************************************************)
\* the cost-factor-adjusted value of a pass, if the 2026 factor is present
\* and below 1.0
EcfCandidate ==
    LET e == EcfGet(ecf_trend, 2026)
    IN  IF e # NA /\ e[1] < RATIO_ONE THEN {FMul(FromInt(user_sev * 2), Frac(e[1], RATIO_ONE))} ELSE {}

\* the median and the mean of the comparable sales, if there are any
SalesCandidates == IF sales_stats.count > 0 THEN {sales_stats.median, sales_stats.mean} ELSE {}

C19_NoCandidateNoAppeal ==
    (appeal_pc = "done" /\ EcfCandidate \cup SalesCandidates = {}) =>
        /\ summary.rec_low = FromInt(user_sev * 2)
        /\ summary.rec_high = FromInt(user_sev * 2)
        /\ summary.no_appeal
        /\ IsShortForm(summary)
        /\ ~IsLongForm(summary)

\* the recommended assessed value minus half the primary recommended value
RoundingError(rec) == FSub(FromInt(rec.rec_sev), Frac(rec.rec_low[1], rec.rec_low[2] * 2))

\* C20: the recommended assessed value is a multiple of 5,000 that differs
\* from half the primary recommended value by at most 2,500; at an exact
\* midpoint it is the even multiple of 5,000; and the composer computes the
\* same value as the session flow.
C20_RoundedAssessedValue ==
    banner # NotRun =>
        /\ banner.rec_sev % 5000 = 0
        /\ FLeq(RoundingError(banner), FromInt(2500))
        /\ FLeq(FromInt(0 - 2500), RoundingError(banner))
        /\ Abs(RoundingError(banner)[1]) = 2500 /\ RoundingError(banner)[2] = 1 =>
              (banner.rec_sev \div 5000) % 2 = 0
        /\ summary # NotRun =>
              /\ summary.rec_low = banner.rec_low
              /\ summary.rec_sev = banner.rec_sev

\* half the median 345,000 is the midpoint 172,500, which both the session
\* flow and the composer round to 170,000
C20_Witness ==
    /\ appeal_pc = "done"
    /\ banner.rec_low = FromInt(345000)
    /\ banner.rec_sev = 170000
    /\ summary.rec_sev = 170000
    /\ summary.status = "ok"

(***************************************************************************)
(* Claims on the order of the comparable sales (Spec).                     *)
(***************************************************************************)
\* the calendar date of d is before the calendar date of e (the normalised
\* form YYYY-MM-DD orders as the calendar does)
EarlierDate(d, e) == StrLess(NormDate(d), NormDate(e))

\* C21: the rows returned by get_comparable_sales are in descending order
\* of their calendar sale dates: no row comes before a row whose calendar
\* sale date is later.
C21_SortedByCalendarDate ==
    ComparableSalesReturned =>
        \A i, j \in 1..Len(SalesOut) :
            (i < j /\ SalesOut[i]["Sale_Date"] # NaNStr /\ SalesOut[j]["Sale_Date"] # NaNStr)
                => ~EarlierDate(SalesOut[i]["Sale_Date"], SalesOut[j]["Sale_Date"])

(***************************************************************************)
(* Claims on the land-value trend (SpecLand).                              *)
(***************************************************************************)
\* the non-missing values of a land-value column among the rows of the
\* target area in the land table of a year
LandValuesOf(year, col) ==
    LET land_df == data.land[year]
        areaCol == IF "Area_Code" \in land_df.cols THEN "Area_Code" ELSE "ECF_Area"
    IN  IF col \notin land_df.cols THEN <<>>
        ELSE DropNa(SelectSeq(land_df.rows, LAMBDA r : StrStrip(r[areaCol]) = area_code), col)

\* twice the value the claim describes: the unique most frequent value, or
\* the median when several values are most frequent
ModeElseMedianX2(vals) ==
    IF Len(Mode(vals)) = 1 THEN 2 * Mode(vals)[1] ELSE MedianX2(vals)

\* C22: when a year has land-value rows for the area, the reported prior
\* and current land values are the unique most frequent value of the
\* column, or the median of the values when no unique mode exists.
C22_ModeElseMedian ==
    views["land_trends"] # NotRun =>
        \A i \in 1..Len(views["land_trends"].rows) :
            LET row == views["land_trends"].rows[i]
            IN  row.year \in DOMAIN data.land =>
                   /\ LandValuesOf(row.year, "Land_Value_Prior") # <<>> =>
                         row.prior_lv_x2 =
                            Some(ModeElseMedianX2(LandValuesOf(row.year, "Land_Value_Prior")))
                   /\ LandValuesOf(row.year, "Land_Value_Current") # <<>> =>
                         row.current_lv_x2 =
                            Some(ModeElseMedianX2(LandValuesOf(row.year, "Land_Value_Current")))

(***************************************************************************)
(* Claims on the area-level summaries and the cost-factor trend (SpecEcf). *)
(***************************************************************************)
\* the rows of a year's summary file whose normalised area code is the
\* target area, in file order
SummaryFileRows(year) ==
    SelectSeq(summary_csv[year],
              LAMBDA r : NormalizeArea(ReadCsvField(r["ECF_Area"])) = area_code)

\* the target area has several rows in the summary file of the year
SeveralSummaryRows(year) == year \in DOMAIN summary_csv /\ Len(SummaryFileRows(year)) > 1

\* C23: when a year's summary file has several rows for the area, the
\* factor in the trend and the subdivision stored for the area are those
\* of the first of these rows, also when they are missing in that row.
C23_FirstRowAuthoritative ==
    (Loaded /\ views["ecf_trend"] # NotRun) =>
        \A year \in DOMAIN summary_csv :
            SeveralSummaryRows(year) =>
                LET first == SummaryFileRows(year)[1]
                    stored == AreaRows(data.ecf_summaries[year], "ECF_Area", area_code)
                IN  /\ views["ecf_trend"].trend[year] =
                          ToNumericRatio(ReadCsvField(first["Ave_ECF"]))
                    /\ Len(stored) = 1
                    /\ stored[1]["Subdivision"] = ReadCsvField(first["Subdivision"])

\* the factors stored for the target area in the summary table of a year
StoredFactors(year) ==
    {data.ecf_summaries[year].rows[i]["Ave_ECF"] :
        i \in {k \in 1..Len(data.ecf_summaries[year].rows) :
                  data.ecf_summaries[year].rows[k]["ECF_Area"] = area_code}}

\* C24: the trend has exactly one entry for every year that has a summary
\* table: the area's factor if the table has a row for the area with a
\* factor, and None otherwise; no year is left out.
C24_TrendCoversEveryYear ==
    views["ecf_trend"] # NotRun =>
        /\ DOMAIN views["ecf_trend"].trend = DOMAIN data.ecf_summaries
        /\ \A year \in DOMAIN data.ecf_summaries :
              IF StoredFactors(year) \subseteq {NA}
              THEN views["ecf_trend"].trend[year] = NA
              ELSE /\ views["ecf_trend"].trend[year] # NA
                   /\ views["ecf_trend"].trend[year] \in StoredFactors(year)

\* the trend has a factor for one year and None for a year whose table has
\* no row for the area
C24_Witness ==
    /\ views["ecf_trend"] # NotRun
    /\ \E y1, y2 \in DOMAIN data.ecf_summaries :
          /\ StoredFactors(y1) = {}
          /\ views["ecf_trend"].trend[y1] = NA
          /\ views["ecf_trend"].trend[y2] # NA

(***************************************************************************)
(* Claims on the sales-study coverage (Spec).                              *)
(***************************************************************************)
\* the positions of the rows of the target area in the sales table of a year
AreaPositions(year) ==
    IF "ECF_Area" \notin data.sales[year].cols THEN {}
    ELSE {i \in 1..Len(data.sales[year].rows) :
             data.sales[year].rows[i]["ECF_Area"] = area_code}

\* the positions of the rows of a year that qualify as comparable sales
QualifyingPositions(year) ==
    {i \in AreaPositions(year) :
        LET r == data.sales[year].rows[i]
        IN  /\ "Terms_of_Sale" \in DOMAIN r => IsArmsLength(r["Terms_of_Sale"])
            /\ AtOrAboveThreshold(r["Adj_Sale"])}

\* C25: the coverage has, for every year with a sales table, the number of
\* rows of the table whose area code is the target, whatever their terms
\* and prices, and 0 when the table has no area column or no such row; so
\* the count is at least the number of the year's qualifying rows.
C25_CoverageCounts ==
    views["coverage"] # NotRun =>
        /\ DOMAIN views["coverage"].counts = DOMAIN data.sales
        /\ \A year \in DOMAIN data.sales :
              /\ views["coverage"].counts[year] = Cardinality(AreaPositions(year))
              /\ views["coverage"].counts[year] >= Cardinality(QualifyingPositions(year))

\* a year counts two rows of the area of which only one qualifies
C25_Witness ==
    /\ views["coverage"] # NotRun
    /\ \E y1 \in DOMAIN data.sales :
          /\ views["coverage"].counts[y1] = 2
          /\ Cardinality(QualifyingPositions(y1)) = 1

(***************************************************************************)
(* Claims on the form of the composed text (SpecAppeal).                   *)
(***************************************************************************)
EcfHeadings ==
    {"EVIDENCE {}: TOWNSHIP ECF DATA CONFIRMS OVER-ASSESSMENT",
     "EVIDENCE {}: TOWNSHIP ECF DATA ANALYSIS"}

\* the kind of an Evidence heading: 1 cost factor, 2 comparable sales,
\* 3 land trend; 0 for any other line
EvidenceKind(line) ==
    IF Len(line) # 2 THEN 0
    ELSE IF line[1] \in EcfHeadings THEN 1
    ELSE IF line[1] = "EVIDENCE {}: COMPARABLE SALES ANALYSIS" THEN 2
    ELSE IF line[1] = "EVIDENCE {}: LAND VALUE TREND" THEN 3
    ELSE 0

\* the rank of a heading in the fixed order; 0 for a line that is no heading
HeadingRank(line) ==
    IF EvidenceKind(line) # 0 THEN 4
    ELSE IF Len(line) # 1 THEN 0
    ELSE IF line[1] = "PROPERTY INFORMATION" THEN 1
    ELSE IF line[1] = "ASSESSMENT VALUES" THEN 2
    ELSE IF line[1] = "GROUNDS FOR APPEAL" THEN 3
    ELSE IF line[1] = "CONCLUSION AND REQUESTED RELIEF" THEN 5
    ELSE IF line[1] = "LEGAL BASIS" THEN 6
    ELSE IF line[1] = "PETITIONER" THEN 7
    ELSE IF line[1] = "Note: This petition is submitted pursuant to MCL 211.30 and the General"
         THEN 8
    ELSE 0

PetitionHeadings(text) == SelectSeq(text, LAMBDA line : HeadingRank(line) # 0)

EvidenceHeadings(text) == SelectSeq(text, LAMBDA line : EvidenceKind(line) # 0)

\* the kinds of Evidence sections the inputs of the pass call for, in order
ExpectedEvidence ==
    (IF EcfGet(ecf_trend, 2026) # NA THEN <<1>> ELSE <<>>)
    \o (IF sales_stats.count > 0 THEN <<2>> ELSE <<>>)
    \o (IF land_trends # <<>> THEN <<3>> ELSE <<>>)

\* the headings are in the fixed order and the Evidence sections present
\* are those called for, numbered 1, 2, ... in that order
LongFormWellFormed(text) ==
    LET heads == PetitionHeadings(text)
        ev == EvidenceHeadings(text)
    IN  /\ text[1] = <<"PETITION TO THE BOARD OF REVIEW">>
        /\ [i \in 1..Len(heads) |-> HeadingRank(heads[i])] =
              <<1, 2, 3>> \o [k \in 1..Len(ev) |-> 4] \o <<5, 6, 7, 8>>
        /\ [k \in 1..Len(ev) |-> EvidenceKind(ev[k])] = ExpectedEvidence
        /\ \A k \in 1..Len(ev) : ev[k][2] = k

\* none of the petition sections is in the text
NoPetitionSection(text) ==
    /\ PetitionHeadings(text) = <<>>
    /\ \A i \in 1..Len(text) : text[i] # <<"PETITION TO THE BOARD OF REVIEW">>

\* the well-formedness of the texts that were composed
C26_ComposedFormsOnly ==
    (appeal_pc = "done" /\ summary.status = "ok") =>
        IF summary.no_appeal
        THEN IsShortForm(summary) /\ NoPetitionSection(summary.text)
        ELSE LongFormWellFormed(summary.text)

\* C26: the composer emits exactly one of two forms: with the verdict "not
\* recommended" the short form with none of the petition sections,
\* otherwise the long form, whose headings are in the fixed order and whose
\* Evidence sections are those present, numbered from 1 without gaps.
C26_TwoForms ==
    appeal_pc = "done" =>
        /\ summary.status = "ok"
        /\ C26_ComposedFormsOnly

(***************************************************************************)
(* Claims on the assessment history (SpecParse).                           *)
(***************************************************************************)
\* page 1 has just been parsed
Page1Parsed ==
    /\ parse_pc = "page2"
    /\ Len(pdf.pages) >= 1
    /\ pdf.pages[1].ocr = "ok"

\* the rows of the history table matched in the text of page 1
HistoryMatches == FindHistory(normalize_ocr_numbers(pdf.pages[1].text), 1)

\* C27: after the history is parsed, the record's assessment history is
\* in ascending order of year, every year is in 2023..2026, and if a 2026
\* row matched, sev_2026 is the assessed value of a matched 2026 row, or 0
\* if that value is unavailable.
C27_HistoryOrdered ==
    Page1Parsed =>
        LET hist == prop.assessment_history
        IN  /\ \A i \in 1..Len(hist) : hist[i].year \in 2023..2026
            /\ \A i, j \in 1..Len(hist) : i < j => hist[i].year <= hist[j].year
            /\ Len(hist) = Len(HistoryMatches)
            /\ (\E i \in 1..Len(hist) : hist[i].year = 2026) =>
                  \E i \in 1..Len(hist) :
                      /\ hist[i].year = 2026
                      /\ prop.sev_2026 = OrZero(hist[i].assessed_value)

\* the text has the 2026 row before the 2025 row, and the history has them
\* in ascending order with the assessed value of the 2026 row
C27_Witness ==
    /\ Page1Parsed
    /\ Len(HistoryMatches) = 2
    /\ HistoryMatches[1].year = 2026
    /\ HistoryMatches[2].year = 2025
    /\ prop.assessment_history[1].year = 2025
    /\ prop.assessment_history[2].year = 2026
    /\ prop.sev_2026 = 42732

(***************************************************************************)
(* Further claims on the recommended values and the verdict (SpecAppeal).  *)
(***************************************************************************)
\* C28: whenever the 2026 cost factor is below 1.0, the low value of the
\* recommended range is no greater than the cost-factor-adjusted value
\* TCV x factor, also when comparable sales exist.
C28_LowAnchoredByEcf ==
    appeal_pc = "done" =>
        \A adjusted \in EcfCandidate : FLeq(summary.rec_low, adjusted)

\* C29: whenever comparable sales exist and their median is at or above the
\* true cash value (twice the assessed value), the verdict is "not
\* recommended" and the short form is returned, never the petition, for
\* every assessed value, multiples of 5,000 or not.
C29_MedianAtOrAboveTcv ==
    (appeal_pc = "done" /\ sales_stats.count > 0
       /\ FLeq(FromInt(user_sev * 2), sales_stats.median)) =>
        /\ summary.no_appeal
        /\ IsShortForm(summary)
        /\ ~IsLongForm(summary)

\* the ASSESSMENT VALUES table requests the assessed value v and the true
\* cash value 2 v
RequestsValues(text, v) ==
    /\ \E i \in 1..Len(text) :
          /\ text[i][1] = "Assessed Value (SEV) ${:>13,.0f}  ${:>13,.0f}  ${:>+13,.0f}"
          /\ text[i][3] = v
    /\ \E i \in 1..Len(text) :
          /\ text[i][1] = "True Cash Value (TCV) ${:>13,.0f}  ${:>13,.0f}  ${:>+13,.0f}"
          /\ text[i][3] = 2 * v

\* C30: whenever the verdict calls for the long-form petition, for any
\* cost-factor trend and any sales statistics, the composer completes
\* without error, and the requested assessed value is above 0 and below the
\* current assessed value, with a requested true cash value of exactly
\* twice the requested assessed value.
C30_PetitionRequestsReduction ==
    (appeal_pc = "done" /\ ~summary.no_appeal) =>
        /\ summary.status = "ok"
        /\ IsLongForm(summary)
        /\ summary.rec_sev > 0
        /\ summary.rec_sev < user_sev
        /\ RequestsValues(summary.text, summary.rec_sev)

====
